---- MODULE Spec2Model ----
(***************************************************************************)
(* State-machine model of the alator / rotala market simulator.            *)
(*                                                                         *)
(*   - V2 depth engine: exchange/uist_v2.rs (UistV2 staging wrapper and    *)
(*     OrderBook: cancel/modify, latency filter, fill walk, FillTracker).  *)
(*   - V1 top-of-book engine: orderbook/diana.rs (Diana) over the quote    *)
(*     source input/penelope.rs.                                           *)
(*                                                                         *)
(* Prices, sizes and quantities are f64 in the source; the model draws     *)
(* them from small integers, on which f64 arithmetic and comparison are    *)
(* exact.  Option<T> is a sequence of length 0 (None) or 1 (Some).         *)
(***************************************************************************)
EXTENDS Integers, Sequences, FiniteSets, TLC

VARIABLES
    engine,            \* which engine the harness constructed
    order_cap,         \* how many orders the harness submits to the V2 engine at most
    market,            \* what the data feed of the harness covers: "single" or "wide"
    now,               \* the harness clock: the timestamp passed to the engine
    latency,           \* OrderBook.latency
    inner,             \* OrderBook.inner : BTreeMap<OrderId, InnerOrder>
    last_order_id,     \* OrderBook.last_order_id
    order_buffer,      \* UistV2.order_buffer
    order_result_log,  \* UistV2.order_result_log: every result returned so far
    executed_trades,   \* return value of the last execute_orders / tick
    inserted_orders,   \* second component of the last tick's return value
    admitted,          \* every InnerOrder returned by OrderBook::insert_order, in order
    last_call,         \* the last engine call: its inputs and the book it started from
    diana_inner,       \* Diana.inner : HashMap<u64, DianaOrderImpl>
    diana_last,        \* Diana.last
    diana_issued,      \* every id returned by Diana::insert_order, in order
    diana_trades,      \* return value of the last Diana::execute_orders
    diana_call,        \* the last Diana::execute_orders call: its date, the book
                       \* it started from and the order the HashMap was iterated in
    diana_completed,   \* every id a Diana::execute_orders call has deleted so far
    diana_waited,      \* every id that rested through a call with no quote for it
    overflow_checks,   \* the build profile: TRUE when integer overflow panics
    clock_call,        \* the ClockBuilder calls that made the clock
    clock_dates,       \* ClockInner.dates
    clock_peeked,      \* the last peek(): the position it was made at, the dates it gave
    clock_pos,         \* ClockInner.pos
    clock_panicked,    \* a call on the clock has panicked
    clock_ret,         \* the last call on the clock and what it returned
    clock_unguarded,   \* some tick was made without has_next() answering true first
    srv_exchange,      \* AppState.exchange: the engine behind the mutex
    srv_mutex,         \* the thread that holds the mutex of AppState.exchange, or Free
    srv_pc,            \* where each worker thread is in its handler
    srv_req,           \* the request each worker thread is serving
    srv_locked_at,     \* the engine as each handler found it when it got the lock
    srv_next,          \* number of insert_order requests received so far
    srv_saw_mid,       \* an engine call began while a tick was between its phases
    brk_kind,          \* which broker was built: SingleBroker or ConcurrentBroker
    cash,              \* SingleBroker.cash / ConcurrentBroker.cash
    holdings,          \* SingleBroker.holdings : symbol -> quantity
    last_seen_trade,   \* SingleBroker.last_seen_trade
    trade_log,         \* every trade the broker's exchange has executed, in order
    brk_applied,       \* how often check has applied each trade of trade_log
    brk_ret,           \* the last call on the broker or strategy and what it returned
    brk_calls,         \* number of calls made on the broker or strategy
    net_cash_flow,     \* StaticWeightStrategy.net_cash_flow
    strat_deposited,   \* sum of the amounts deposited through the strategy
    strat_withdrawn    \* sum of the amounts the strategy's withdrawals got back

vars == <<engine, order_cap, market, now, latency, inner, last_order_id, order_buffer,
          order_result_log, executed_trades, inserted_orders, admitted,
          last_call, diana_inner, diana_last, diana_issued, diana_trades,
          diana_call, diana_completed, diana_waited, overflow_checks,
          clock_call, clock_dates, clock_peeked, clock_pos, clock_panicked, clock_ret,
          clock_unguarded, srv_exchange, srv_mutex, srv_pc, srv_req, srv_locked_at, srv_next,
          srv_saw_mid, brk_kind, cash, holdings, last_seen_trade, trade_log, brk_applied,
          brk_ret, brk_calls, net_cash_flow, strat_deposited, strat_withdrawn>>

v2vars == <<latency, inner, last_order_id, order_buffer, order_result_log,
            executed_trades, inserted_orders, admitted, last_call>>

dianavars == <<diana_inner, diana_last, diana_issued, diana_trades,
               diana_call, diana_completed, diana_waited>>

clockvars == <<overflow_checks, clock_call, clock_dates, clock_peeked, clock_pos,
               clock_panicked, clock_ret, clock_unguarded>>

servervars == <<srv_exchange, srv_mutex, srv_pc, srv_req, srv_locked_at, srv_next,
                srv_saw_mid>>

brokervars == <<brk_kind, cash, holdings, last_seen_trade, trade_log, brk_applied,
                brk_ret, brk_calls, net_cash_flow, strat_deposited, strat_withdrawn>>

----------------------------------------------------------------------------
(* Bounds of the model *)

\* total number of orders admitted to a book in one run
MaxOrders == 2
\* last timestamp of the harness clock
MaxTime == 2
\* most calls of ClockInner::tick on one clock
MaxTicks == 4
\* longest period, in seconds or in days, a clock is built for
MaxLength == 2
\* most calls made on one broker or on one strategy
MaxCalls == 3
\* most trades the exchange of a broker executes in one run
MaxTrades == 2

----------------------------------------------------------------------------
(* Option, maps *)

None == <<>>
Some(x) == <<x>>
IsSome(o) == o /= <<>>
Unwrap(o) == o[1]

EmptyMap == <<>>
MapRemove(m, k) == [x \in (DOMAIN m) \ {k} |-> m[x]]
MapInsert(m, k, v) == (k :> v) @@ m
SetMin(S) == CHOOSE x \in S : \A y \in S : x <= y

\* keys of a BTreeMap in iteration order (ascending)
RECURSIVE AscendingSeq(_)
AscendingSeq(S) ==
    IF S = {} THEN <<>>
    ELSE <<SetMin(S)>> \o AscendingSeq(S \ {SetMin(S)})

\* f64::MAX and f64::MIN, the price_check of market orders: beyond every price
F64_MAX == 2147483647
F64_MIN == -2147483647

----------------------------------------------------------------------------
(* Orders and results of the V2 engine *)

Order(order_type, symbol, qty, price, order_id_ref, exchange) ==
    [order_type |-> order_type, symbol |-> symbol, qty |-> qty, price |-> price,
     order_id_ref |-> order_id_ref, exchange |-> exchange]

market_buy(symbol, shares, exchange) ==
    Order("MarketBuy", symbol, shares, None, None, exchange)
market_sell(symbol, shares, exchange) ==
    Order("MarketSell", symbol, shares, None, None, exchange)
limit_buy(symbol, shares, price, exchange) ==
    Order("LimitBuy", symbol, shares, Some(price), None, exchange)
limit_sell(symbol, shares, price, exchange) ==
    Order("LimitSell", symbol, shares, Some(price), None, exchange)
modify_order_req(symbol, order_id, qty_change, exchange) ==
    Order("Modify", symbol, qty_change, None, Some(order_id), exchange)
cancel_order_req(symbol, order_id, exchange) ==
    Order("Cancel", symbol, 0, None, Some(order_id), exchange)

InnerOrder(order, recieved_timestamp, order_id) ==
    [order_type |-> order.order_type, symbol |-> order.symbol, qty |-> order.qty,
     price |-> order.price, recieved_timestamp |-> recieved_timestamp,
     order_id |-> order_id, order_id_ref |-> order.order_id_ref,
     exchange |-> order.exchange]

OrderResult(symbol, value, quantity, date, typ, order_id, order_id_ref, exchange) ==
    [symbol |-> symbol, value |-> value, quantity |-> quantity, date |-> date,
     typ |-> typ, order_id |-> order_id, order_id_ref |-> order_id_ref,
     exchange |-> exchange]

Level(price, size) == [price |-> price, size |-> size]

Depth(date, symbol, exchange, bids, asks) ==
    [date |-> date, symbol |-> symbol, exchange |-> exchange,
     bids |-> bids, asks |-> asks]

Trade(coin, side, px, sz, time, exchange) ==
    [coin |-> coin, side |-> side, px |-> px, sz |-> sz, time |-> time,
     exchange |-> exchange]

----------------------------------------------------------------------------
(* FillTracker: symbol -> price as text -> size filled in this execution cycle *)

FillTracker_new == EmptyMap

\* get_fill as it would be if the tracker were never consulted
get_fill_untracked(filled, symbol, price) == 0

get_fill(filled, symbol, price) ==
    IF symbol \in DOMAIN filled
    THEN LET fills == filled[symbol]
             level_string == ToString(price)
         IN IF level_string \in DOMAIN fills THEN fills[level_string] ELSE 0
    ELSE 0

insert_fill(filled, symbol, price, qty) ==
    LET withsym == IF symbol \in DOMAIN filled
                   THEN filled ELSE MapInsert(filled, symbol, EmptyMap)
        fills == withsym[symbol]
        level_string == ToString(price)
        updated == IF level_string \in DOMAIN fills
                   THEN [fills EXCEPT ![level_string] = @ + qty]
                   ELSE MapInsert(fills, level_string, qty)
    IN [withsym EXCEPT ![symbol] = updated]

----------------------------------------------------------------------------
(* LatencyModel *)

LatencyNone == [kind |-> "None", period |-> 0]
FixedPeriod(period) == [kind |-> "FixedPeriod", period |-> period]

\* cmp_order as it would be with <= for <
cmp_order_inclusive(lat, t, order) ==
    IF lat.kind = "None" THEN TRUE
    ELSE order.recieved_timestamp + lat.period <= t

cmp_order(lat, t, order) ==
    IF lat.kind = "None" THEN TRUE
    ELSE order.recieved_timestamp + lat.period < t

----------------------------------------------------------------------------
(* OrderBook::insert_order, cancel_order, modify_order *)

\* insert_order as it would be if the id were the number of resting orders
insert_order_by_size(book, order, t) ==
    LET id == Cardinality(DOMAIN book.inner)
        inner_order == InnerOrder(order, t, id)
    IN [inner |-> MapInsert(book.inner, id, inner_order),
        last_order_id |-> id + 1,
        inner_order |-> inner_order]

\* the book is [inner, last_order_id]; returns the book and the InnerOrder
insert_order(book, order, t) ==
    LET inner_order == InnerOrder(order, t, book.last_order_id)
    IN [inner |-> MapInsert(book.inner, book.last_order_id, inner_order),
        last_order_id |-> book.last_order_id + 1,
        inner_order |-> inner_order]

\* cancel_order as it would be if it reported the cancel and removed nothing
cancel_order_keep(t, cancel, orderbook) ==
    IF IsSome(cancel.order_id_ref) /\ Unwrap(cancel.order_id_ref) \in DOMAIN orderbook
    THEN [orderbook |-> orderbook,
          res |-> <<OrderResult(cancel.symbol, 0, 0, t, "Cancel", cancel.order_id,
                                Some(Unwrap(cancel.order_id_ref)), cancel.exchange)>>]
    ELSE [orderbook |-> orderbook, res |-> <<>>]

\* cancel_order as it would be if it removed the cancel's own id, as
\* modify_order does
cancel_order_own_id(t, cancel, orderbook) ==
    IF IsSome(cancel.order_id_ref) /\ Unwrap(cancel.order_id_ref) \in DOMAIN orderbook
    THEN [orderbook |-> MapRemove(orderbook, cancel.order_id),
          res |-> <<OrderResult(cancel.symbol, 0, 0, t, "Cancel", cancel.order_id,
                                Some(Unwrap(cancel.order_id_ref)), cancel.exchange)>>]
    ELSE [orderbook |-> orderbook, res |-> <<>>]

\* cancel_order as it would be if it reported a Cancel whose referent is missing
cancel_order_report_missing(t, cancel, orderbook) ==
    [orderbook |-> MapRemove(orderbook, Unwrap(cancel.order_id_ref)),
     res |-> <<OrderResult(cancel.symbol, 0, 0, t, "Cancel", cancel.order_id,
                           Some(Unwrap(cancel.order_id_ref)), cancel.exchange)>>]

\* returns the working book and the results (at most one)
cancel_order(t, cancel, orderbook) ==
    IF IsSome(cancel.order_id_ref) /\ Unwrap(cancel.order_id_ref) \in DOMAIN orderbook
    THEN [orderbook |-> MapRemove(orderbook, Unwrap(cancel.order_id_ref)),
          res |-> <<OrderResult(cancel.symbol, 0, 0, t, "Cancel", cancel.order_id,
                                Some(Unwrap(cancel.order_id_ref)), cancel.exchange)>>]
    ELSE [orderbook |-> orderbook, res |-> <<>>]

\* modify_order as it would be if it reported the modify and left the qty alone
modify_order_report_only(t, modify, orderbook) ==
    IF Unwrap(modify.order_id_ref) \in DOMAIN orderbook
    THEN [orderbook |-> orderbook,
          res |-> <<OrderResult(modify.symbol, 0, 0, t, "Modify", modify.order_id,
                                Some(Unwrap(modify.order_id_ref)), modify.exchange)>>]
    ELSE [orderbook |-> orderbook, res |-> <<>>]

modify_order(t, modify, orderbook) ==
    LET ref == Unwrap(modify.order_id_ref)
    IN IF ref \in DOMAIN orderbook
       THEN LET qty_change == modify.qty
                qty_left == orderbook[ref].qty + qty_change
                changed ==
                    IF qty_change > 0
                    THEN [orderbook EXCEPT ![ref].qty = @ + qty_change]
                    ELSE IF qty_left > 0
                         THEN [orderbook EXCEPT ![ref].qty = @ + qty_change]
                         ELSE MapRemove(orderbook, modify.order_id)
            IN [orderbook |-> changed,
                res |-> <<OrderResult(modify.symbol, 0, 0, t, "Modify", modify.order_id,
                                      Some(ref), modify.exchange)>>]
       ELSE [orderbook |-> orderbook, res |-> <<>>]

----------------------------------------------------------------------------
(* OrderBook::fill_order *)

IsBuy(order_type) == order_type \in {"MarketBuy", "LimitBuy"}
IsSell(order_type) == order_type \in {"MarketSell", "LimitSell"}

\* price_check as it would be if a limit order were given the bound of a
\* market order
PriceCheck_no_limit(order) ==
    IF order.order_type \in {"LimitBuy", "MarketBuy"} THEN F64_MAX ELSE F64_MIN

PriceCheck(order) ==
    CASE order.order_type \in {"LimitBuy", "LimitSell"} -> Unwrap(order.price)
      [] order.order_type = "MarketBuy" -> F64_MAX
      [] order.order_type = "MarketSell" -> F64_MIN

\* the walk state is [to_fill, trades, filled, brk]; brk records a `break`.
\* One level of the walk: `if size == 0.0 { break; }`, then qty =
\* min(size, to_fill) as the code computes it, the trade pushed and the
\* tracker incremented; the displayed-size branches also break once
\* to_fill == 0.0
TakeLevel(st, depth, order, price, size, typ, break_when_filled) ==
    IF size = 0 THEN [st EXCEPT !.brk = TRUE]
    ELSE LET qty == IF size >= st.to_fill THEN st.to_fill ELSE size
         IN [to_fill |-> st.to_fill - qty,
             trades |-> Append(st.trades,
                               OrderResult(order.symbol, price * qty, qty, depth.date, typ,
                                           order.order_id, None, order.exchange)),
             filled |-> insert_fill(st.filled, order.symbol, price, qty),
             brk |-> break_when_filled /\ st.to_fill - qty = 0]

\* the AlwaysFirst branch of the bid loop as it would be if a buy took the
\* first component, `buy_vol`
BidTakerVolume_buy_vol(st, depth, order, taker_trades, priority_setting, bid, filled_size) ==
    IF /\ priority_setting = "AlwaysFirst"
       /\ IsBuy(order.order_type)
       /\ bid.price = PriceCheck(order)
       /\ ToString(PriceCheck(order)) \in DOMAIN taker_trades
    THEN TakeLevel(st, depth, order, bid.price,
                   taker_trades[ToString(PriceCheck(order))][1] - filled_size,
                   "Buy", FALSE)
    ELSE st

\* bid loop, AlwaysFirst branch: a buy resting at the bid price takes the
\* taker volume `sell_vol` (the second component) printed at that price
BidTakerVolume(st, depth, order, taker_trades, priority_setting, bid, filled_size) ==
    IF /\ priority_setting = "AlwaysFirst"
       /\ IsBuy(order.order_type)
       /\ bid.price = PriceCheck(order)
       /\ ToString(PriceCheck(order)) \in DOMAIN taker_trades
    THEN TakeLevel(st, depth, order, bid.price,
                   taker_trades[ToString(PriceCheck(order))][2] - filled_size,
                   "Buy", FALSE)
    ELSE st

\* bid loop, displayed-size branch: a sell takes bid.size - filled_size
BidDisplayed(st, depth, order, bid, filled_size) ==
    IF st.brk THEN st
    ELSE IF ~IsBuy(order.order_type) /\ bid.price >= PriceCheck(order)
         THEN TakeLevel(st, depth, order, bid.price, bid.size - filled_size, "Sell", TRUE)
         ELSE st

\* body of `for bid in &depth.bids`; filled_size is read once, at the top
BidStep(st, depth, order, taker_trades, priority_setting, bid) ==
    BidDisplayed(BidTakerVolume(st, depth, order, taker_trades, priority_setting, bid,
                                get_fill(st.filled, order.symbol, bid.price)),
                 depth, order, bid, get_fill(st.filled, order.symbol, bid.price))

\* ask loop, AlwaysFirst branch: a sell resting at the ask price takes the
\* taker volume `buy_vol` (the first component) printed at that price
AskTakerVolume(st, depth, order, taker_trades, priority_setting, ask, filled_size) ==
    IF /\ priority_setting = "AlwaysFirst"
       /\ ~IsBuy(order.order_type)
       /\ ask.price = PriceCheck(order)
       /\ ToString(PriceCheck(order)) \in DOMAIN taker_trades
    THEN TakeLevel(st, depth, order, ask.price,
                   taker_trades[ToString(PriceCheck(order))][1] - filled_size,
                   "Sell", FALSE)
    ELSE st

\* AskDisplayed as it would be if a level at the limit price were out of reach
AskDisplayed_below_limit(st, depth, order, ask) ==
    IF st.brk THEN st
    ELSE IF IsBuy(order.order_type) /\ ask.price < PriceCheck(order)
         THEN TakeLevel(st, depth, order, ask.price,
                        ask.size - get_fill(st.filled, order.symbol, ask.price),
                        "Buy", TRUE)
         ELSE st

\* ask loop, displayed-size branch: a buy takes ask.size less the fill it
\* reads again from the tracker
AskDisplayed(st, depth, order, ask) ==
    IF st.brk THEN st
    ELSE IF IsBuy(order.order_type) /\ ask.price <= PriceCheck(order)
         THEN TakeLevel(st, depth, order, ask.price,
                        ask.size - get_fill(st.filled, order.symbol, ask.price),
                        "Buy", TRUE)
         ELSE st

\* body of `for ask in &depth.asks`
AskStep(st, depth, order, taker_trades, priority_setting, ask) ==
    AskDisplayed(AskTakerVolume(st, depth, order, taker_trades, priority_setting, ask,
                                get_fill(st.filled, order.symbol, ask.price)),
                 depth, order, ask)

RECURSIVE WalkBids(_, _, _, _, _, _)
WalkBids(st, depth, order, taker_trades, priority_setting, i) ==
    IF i > Len(depth.bids) \/ st.brk THEN st
    ELSE WalkBids(BidStep(st, depth, order, taker_trades, priority_setting, depth.bids[i]),
                  depth, order, taker_trades, priority_setting, i + 1)

RECURSIVE WalkAsks(_, _, _, _, _, _)
WalkAsks(st, depth, order, taker_trades, priority_setting, i) ==
    IF i > Len(depth.asks) \/ st.brk THEN st
    ELSE WalkAsks(AskStep(st, depth, order, taker_trades, priority_setting, depth.asks[i]),
                  depth, order, taker_trades, priority_setting, i + 1)

\* what fill_order hands back: the trades, and the tracker it mutated
WalkResult(st) == [trades |-> st.trades, filled |-> st.filled]

\* returns [trades, filled]: the bid loop, then the ask loop
fill_order(depth, order, filled, taker_trades, priority_setting) ==
    WalkResult(
        WalkAsks([WalkBids([to_fill |-> order.qty, trades |-> <<>>, filled |-> filled,
                            brk |-> FALSE],
                           depth, order, taker_trades, priority_setting, 1)
                     EXCEPT !.brk = FALSE],
                 depth, order, taker_trades, priority_setting, 1))

----------------------------------------------------------------------------
(* OrderBook::execute_orders *)

\* FilledTrades: price as text -> (volume.0, volume.1); Side::Ask adds to
\* volume.0 and Side::Bid to volume.1, for every print of the DateTrade
RECURSIVE TakerTrades(_, _, _)
TakerTrades(trades, i, acc) ==
    IF i > Len(trades) THEN acc
    ELSE LET trade == trades[i]
             key == ToString(trade.px)
             acc0 == IF key \in DOMAIN acc THEN acc ELSE MapInsert(acc, key, <<0, 0>>)
             volume == acc0[key]
             acc1 == IF trade.side = "Bid"
                     THEN [acc0 EXCEPT ![key] = <<volume[1], volume[2] + trade.sz>>]
                     ELSE [acc0 EXCEPT ![key] = <<volume[1] + trade.sz, volume[2]>>]
         IN TakerTrades(trades, i + 1, acc1)

IsCancelOrModify(order) == order.order_type \in {"Cancel", "Modify"}

\* the cancels and modifies split out of the book, in pop_first (ascending id) order
\* the split as it would be if only the Cancel entries were collected
CancelAndModify_cancels_only(book) ==
    LET ids == AscendingSeq({id \in DOMAIN book : book[id].order_type = "Cancel"})
    IN [i \in 1..Len(ids) |-> book[ids[i]]]

CancelAndModify(book) ==
    LET ids == AscendingSeq({id \in DOMAIN book : IsCancelOrModify(book[id])})
    IN [i \in 1..Len(ids) |-> book[ids[i]]]

\* the remaining orders: the working copy of the book
WorkingOrders(book) ==
    LET ids == {id \in DOMAIN book : ~IsCancelOrModify(book[id])}
    IN [id \in ids |-> book[id]]

\* `trade_results.append(&mut res)` on the working book the call left
Applied(acc, r) ==
    [orders |-> r.orderbook, trade_results |-> acc.trade_results \o r.res]

\* `for order in cancel_and_modify`
RECURSIVE ApplyCancelAndModify(_, _, _, _)
ApplyCancelAndModify(t, cancel_and_modify, i, acc) ==
    IF i > Len(cancel_and_modify) THEN acc
    ELSE ApplyCancelAndModify(t, cancel_and_modify, i + 1,
            Applied(acc,
                    IF cancel_and_modify[i].order_type = "Cancel"
                    THEN cancel_order(t, cancel_and_modify[i], acc.orders)
                    ELSE modify_order(t, cancel_and_modify[i], acc.orders)))

\* AfterFill as it would be if the trades of an order were put in front of
\* the results collected so far
AfterFill_results_in_front(acc, order, r) ==
    [unexecuted_orders |->
        IF r.trades = <<>>
        THEN MapInsert(acc.unexecuted_orders, order.order_id, order)
        ELSE acc.unexecuted_orders,
     trade_results |-> r.trades \o acc.trade_results,
     filled |-> r.filled]

\* AfterFill as it would be if an order without a trade were not put back
AfterFill_drop_unfilled(acc, order, r) ==
    [unexecuted_orders |-> acc.unexecuted_orders,
     trade_results |-> acc.trade_results \o r.trades,
     filled |-> r.filled]

\* AfterFill as it would be if an executed order were left in the book
AfterFill_keep_executed(acc, order, r) ==
    [unexecuted_orders |-> MapInsert(acc.unexecuted_orders, order.order_id, order),
     trade_results |-> acc.trade_results \o r.trades,
     filled |-> r.filled]

\* the loop state is [unexecuted_orders, trade_results, filled].
\* After fill_order: the order goes back to the book only if
\* completed_trades.is_empty(); the trades are appended to the results
AfterFill(acc, order, r) ==
    [unexecuted_orders |->
        IF r.trades = <<>>
        THEN MapInsert(acc.unexecuted_orders, order.order_id, order)
        ELSE acc.unexecuted_orders,
     trade_results |-> acc.trade_results \o r.trades,
     filled |-> r.filled]

\* the loop body as it would be if an unknown venue were treated like a
\* missing symbol
MatchStep_drop_unknown_venue(acc, lat, priority_setting, quotes, taker_trades, t, order) ==
    IF ~cmp_order(lat, t, order)
    THEN [acc EXCEPT !.unexecuted_orders = MapInsert(@, order.order_id, order)]
    ELSE IF order.exchange \in DOMAIN quotes /\ order.symbol \in DOMAIN quotes[order.exchange]
         THEN AfterFill(acc, order,
                        fill_order(quotes[order.exchange][order.symbol], order,
                                   acc.filled, taker_trades, priority_setting))
         ELSE acc

\* body of `while let Some((order_id, order)) = orders.pop_first()`
MatchStep(acc, lat, priority_setting, quotes, taker_trades, t, order) ==
    IF ~cmp_order(lat, t, order)
    THEN [acc EXCEPT !.unexecuted_orders = MapInsert(@, order.order_id, order)]
    ELSE IF order.exchange \in DOMAIN quotes
         THEN IF order.symbol \in DOMAIN quotes[order.exchange]
              THEN AfterFill(acc, order,
                             fill_order(quotes[order.exchange][order.symbol], order,
                                        acc.filled, taker_trades, priority_setting))
              ELSE acc
         ELSE [acc EXCEPT !.unexecuted_orders = MapInsert(@, order.order_id, order)]

RECURSIVE MatchOrders(_, _, _, _, _, _, _, _)
MatchOrders(acc, lat, priority_setting, quotes, taker_trades, t, orders, ids) ==
    IF ids = <<>> THEN acc
    ELSE MatchOrders(MatchStep(acc, lat, priority_setting, quotes, taker_trades, t,
                               orders[Head(ids)]),
                     lat, priority_setting, quotes, taker_trades, t, orders, Tail(ids))

\* the matching pass over the working book the cancels and modifies left,
\* in pop_first (ascending id) order, with a fresh FillTracker
MatchAll(split, lat, priority_setting, quotes, taker_trades, t) ==
    MatchOrders([unexecuted_orders |-> EmptyMap,
                 trade_results |-> split.trade_results,
                 filled |-> FillTracker_new],
                lat, priority_setting, quotes, taker_trades, t,
                split.orders, AscendingSeq(DOMAIN split.orders))

\* `self.inner = unexecuted_orders; trade_results`
Commit(done) ==
    [inner |-> done.unexecuted_orders, trade_results |-> done.trade_results]

\* returns [inner, trade_results]
execute_orders(book, lat, priority_setting, quotes, trades, t) ==
    IF DOMAIN book = {}
    THEN [inner |-> book, trade_results |-> <<>>]
    ELSE Commit(MatchAll(ApplyCancelAndModify(t, CancelAndModify(book), 1,
                             [orders |-> WorkingOrders(book), trade_results |-> <<>>]),
                         lat, priority_setting, quotes,
                         TakerTrades(trades, 1, EmptyMap), t))

----------------------------------------------------------------------------
(* UistV2::sort_order_buffer *)

\* slice::sort_by with the comparator `a is a sell => Less, otherwise Greater`.
\* For a slice this short the standard library sorts by insertion: the element
\* at index i is shifted left while is_less(element, left neighbour), and
\* is_less looks at the element only.
RECURSIVE InsertionSort(_, _)
InsertionSort(v, i) ==
    IF i > Len(v) THEN v
    ELSE IF IsSell(v[i].order_type)
         THEN InsertionSort(<<v[i]>> \o SubSeq(v, 1, i - 1) \o SubSeq(v, i + 1, Len(v)),
                            i + 1)
         ELSE InsertionSort(v, i + 1)

\* sort_order_buffer as it would be if the buffer were left in arrival order
sort_order_buffer_arrival(buffer) == buffer

sort_order_buffer(buffer) == InsertionSort(buffer, 2)

----------------------------------------------------------------------------
(* Inputs of the V2 engine: what clients submit and what the data feed shows *)

Symbols == {"ABC"}
Venues == {"exchange"}

\* OrderBook::new and OrderBook::with_latency both set AlwaysFirst
priority_setting == "AlwaysFirst"

\* the period handed to OrderBook::with_latency
Period == 1

OrderIds == 0..(MaxOrders - 1)

OrderInputs ==
    {market_buy("ABC", 3, "exchange"),
     market_sell("ABC", 2, "exchange"),
     limit_buy("ABC", 3, 3, "exchange"),
     limit_buy("ABC", 1, 2, "exchange"),
     limit_sell("ABC", 3, 1, "exchange"),
     limit_sell("ABC", 2, 3, "exchange"),
     cancel_order_req("ABC", 0, "exchange"),
     cancel_order_req("ABC", 1, "exchange"),
     modify_order_req("ABC", 0, 1, "exchange"),
     modify_order_req("ABC", 0, -2, "exchange")}

\* bids descending, asks ascending, best bid below best ask
BookABC(t) ==
    Depth(t, "ABC", "exchange", <<Level(2, 2), Level(1, 1)>>, <<Level(3, 2), Level(4, 1)>>)
BookXYZ(t) ==
    Depth(t, "XYZ", "exchange", <<Level(2, 2)>>, <<Level(3, 2)>>)

\* the taker prints of one timestamp (a DateTrade, flattened in date order)
PrintsABC(t) ==
    <<Trade("ABC", "Bid", 2, 1, t, "exchange"), Trade("ABC", "Ask", 3, 1, t, "exchange")>>

\* what the data feed can show at timestamp t: quotes is a DateDepth
\* (venue -> symbol -> Depth), trades the taker prints
FeedInputs(t) ==
    {[quotes |-> ("exchange" :> ("ABC" :> BookABC(t))), trades |-> PrintsABC(t)],
     [quotes |-> ("exchange" :> ("ABC" :> BookABC(t))), trades |-> <<>>],
     [quotes |-> ("exchange" :> ("XYZ" :> BookXYZ(t))), trades |-> <<>>],
     [quotes |-> ("other" :> ("ABC" :> BookABC(t))), trades |-> <<>>]}

\* a second venue that shows the symbol at the prices of the first
BookOther(t) ==
    Depth(t, "ABC", "other", <<Level(2, 2), Level(1, 1)>>, <<Level(3, 2), Level(4, 1)>>)

\* taker prints of another symbol at a price of the ABC book
PrintsXYZ(t) ==
    <<Trade("XYZ", "Bid", 2, 1, t, "exchange")>>

\* the orders clients send to the second venue
WideOrderInputs ==
    {market_buy("ABC", 3, "other"),
     market_sell("ABC", 2, "other")}

\* what the feed of a wide market can show besides: both venues at once, and
\* the book of one symbol with the prints of another
WideFeedInputs(t) ==
    {[quotes |-> ("exchange" :> ("ABC" :> BookABC(t)) @@ "other" :> ("ABC" :> BookOther(t))),
      trades |-> <<>>],
     [quotes |-> ("exchange" :> ("ABC" :> BookABC(t))), trades |-> PrintsXYZ(t)]}

OrdersIn(mkt) ==
    IF mkt = "wide" THEN OrderInputs \cup WideOrderInputs ELSE OrderInputs

FeedsIn(mkt, t) ==
    IF mkt = "wide" THEN FeedInputs(t) \cup WideFeedInputs(t) ELSE FeedInputs(t)

----------------------------------------------------------------------------
(* V1: Diana over Penelope *)

DianaOrderImpl(order_type, symbol, shares, price) ==
    [order_type |-> order_type, symbol |-> symbol, shares |-> shares, price |-> price]

DianaTrade(symbol, value, quantity, date, typ) ==
    [symbol |-> symbol, value |-> value, quantity |-> quantity, date |-> date,
     typ |-> typ]

PenelopeQuote(bid, ask, date, symbol) ==
    [bid |-> bid, ask |-> ask, date |-> date, symbol |-> symbol]

\* get_quote as it would be if a date without a quote fell back on the
\* quote of the date before
get_quote_or_previous(source, date, symbol) ==
    IF date \in DOMAIN source /\ symbol \in DOMAIN source[date]
    THEN Some(source[date][symbol])
    ELSE IF (date - 1) \in DOMAIN source /\ symbol \in DOMAIN source[date - 1]
         THEN Some(source[date - 1][symbol])
         ELSE None

\* Penelope::get_quote: date -> symbol -> quote
get_quote(source, date, symbol) ==
    IF date \in DOMAIN source
    THEN IF symbol \in DOMAIN source[date] THEN Some(source[date][symbol]) ELSE None
    ELSE None

\* PartialOrd of Option<f64>: None is below every Some
OptionLe(a, b) ==
    IF a = None THEN TRUE ELSE IF b = None THEN FALSE ELSE Unwrap(a) <= Unwrap(b)
OptionGe(a, b) == OptionLe(b, a)

\* execute_buy as it would be if a buy traded at the bid
execute_buy_at_bid(quote, order, date) ==
    DianaTrade(order.symbol, quote.bid * order.shares, order.shares, date, "Buy")

execute_buy(quote, order, date) ==
    DianaTrade(order.symbol, quote.ask * order.shares, order.shares, date, "Buy")
execute_sell(quote, order, date) ==
    DianaTrade(order.symbol, quote.bid * order.shares, order.shares, date, "Sell")

\* the `match order.order_type` of Diana::execute_orders: Some(trade) or None
DianaResult(quote, order, date) ==
    CASE order.order_type = "MarketBuy" -> Some(execute_buy(quote, order, date))
      [] order.order_type = "MarketSell" -> Some(execute_sell(quote, order, date))
      [] order.order_type = "LimitBuy" ->
            IF OptionGe(order.price, Some(quote.ask))
            THEN Some(execute_buy(quote, order, date)) ELSE None
      [] order.order_type = "LimitSell" ->
            IF OptionLe(order.price, Some(quote.bid))
            THEN Some(execute_sell(quote, order, date)) ELSE None
      [] order.order_type = "StopBuy" ->
            IF OptionLe(order.price, Some(quote.ask))
            THEN Some(execute_buy(quote, order, date)) ELSE None
      [] order.order_type = "StopSell" ->
            IF OptionGe(order.price, Some(quote.bid))
            THEN Some(execute_sell(quote, order, date)) ELSE None

\* `for (key, order) in self.inner.iter()` over the keys in the order `keys`
RECURSIVE DianaWalk(_, _, _, _, _)
DianaWalk(book, source, date, keys, acc) ==
    IF keys = <<>> THEN acc
    ELSE LET key == Head(keys)
             order == book[key]
             quote == get_quote(source, date, order.symbol)
             result == IF IsSome(quote) THEN DianaResult(Unwrap(quote), order, date)
                       ELSE None
         IN DianaWalk(book, source, date, Tail(keys),
                IF IsSome(result)
                THEN [completed_orderids |-> Append(acc.completed_orderids, key),
                      trade_results |-> Append(acc.trade_results, Unwrap(result))]
                ELSE acc)

\* Diana::execute_orders as it would be without the delete_order loop
diana_execute_orders_keep_completed(book, date, source, keys) ==
    IF DOMAIN book = {}
    THEN [inner |-> book, trade_results |-> <<>>]
    ELSE [inner |-> book,
          trade_results |-> DianaWalk(book, source, date, keys,
                                [completed_orderids |-> <<>>,
                                 trade_results |-> <<>>]).trade_results]

\* Diana::execute_orders with the HashMap iterated in the order `keys`
diana_execute_orders(book, date, source, keys) ==
    IF DOMAIN book = {}
    THEN [inner |-> book, trade_results |-> <<>>]
    ELSE LET r == DianaWalk(book, source, date, keys,
                            [completed_orderids |-> <<>>, trade_results |-> <<>>])
             done == {r.completed_orderids[i] : i \in 1..Len(r.completed_orderids)}
         IN [inner |-> [k \in (DOMAIN book) \ done |-> book[k]],
             trade_results |-> r.trade_results]

\* Diana::insert_order: returns the book and the id
diana_insert_order(book, order) ==
    LET last == book.last
    IN [inner |-> MapInsert(book.inner, last, order), last |-> last + 1, id |-> last]

\* Diana::delete_order
diana_delete_order(book_inner, order_id) == MapRemove(book_inner, order_id)

DianaOrderInputs ==
    {DianaOrderImpl("MarketBuy", "ABC", 2, None),
     DianaOrderImpl("MarketSell", "ABC", 2, None),
     DianaOrderImpl("LimitBuy", "ABC", 1, Some(3)),
     DianaOrderImpl("LimitBuy", "ABC", 1, Some(2)),
     DianaOrderImpl("LimitSell", "ABC", 1, Some(3)),
     DianaOrderImpl("LimitSell", "ABC", 1, Some(4)),
     DianaOrderImpl("StopBuy", "ABC", 1, Some(4)),
     DianaOrderImpl("StopBuy", "ABC", 1, Some(2)),
     DianaOrderImpl("StopSell", "ABC", 1, Some(3)),
     DianaOrderImpl("StopSell", "ABC", 1, Some(4)),
     DianaOrderImpl("MarketBuy", "XYZ", 2, None)}

\* the quote source: ABC is quoted at every even timestamp, 1/2 at 0 and
\* 3 higher at each later one (4/5 at 2); XYZ is never quoted
PenelopeSource ==
    [date \in {t \in 0..MaxTime : t % 2 = 0} |->
        ("ABC" :> PenelopeQuote(1 + 3 * (date \div 2), 2 + 3 * (date \div 2), date, "ABC"))]

\* the orders in which a HashMap over the keys S can be iterated
KeyOrders(S) ==
    {k \in [1..Cardinality(S) -> S] : \A i, j \in 1..Cardinality(S) : i /= j => k[i] /= k[j]}

----------------------------------------------------------------------------
(* ClockInner and ClockBuilder *)

SECS_IN_DAY == 86400

ClockBuilder(start, end) == [start |-> start, end |-> end]

from_fixed(start, end) == ClockBuilder(start, end)
from_length_seconds(start, length_in_seconds) ==
    ClockBuilder(start, start + length_in_seconds)
from_length_days(start, length_in_days) ==
    ClockBuilder(start, start + length_in_days * SECS_IN_DAY)

\* the number of elements of the range lo..hi (hi excluded) taken every step
RangeCount(lo, hi, step) == IF hi > lo THEN ((hi - lo - 1) \div step) + 1 ELSE 0

\* every_second as it would be if the range stopped before the end
every_second_end_excluded(builder) ==
    [i \in 1..RangeCount(builder.start, builder.end, 1) |-> builder.start + (i - 1)]

\* ClockBuilder::every_second: the dates of (start..end + 1)
every_second(builder) ==
    [i \in 1..RangeCount(builder.start, builder.end + 1, 1) |-> builder.start + (i - 1)]

\* ClockBuilder::daily: the dates of (start..end + SECS_IN_DAY).step_by(SECS_IN_DAY)
daily(builder) ==
    [i \in 1..RangeCount(builder.start, builder.end + SECS_IN_DAY, SECS_IN_DAY) |->
        builder.start + (i - 1) * SECS_IN_DAY]

\* what a call on the clock gives back: a panic, or the value of its type
ClockPanic(op) == [op |-> op, panic |-> TRUE, flag |-> FALSE, date |-> 0]
ClockFlag(op, flag) == [op |-> op, panic |-> FALSE, flag |-> flag, date |-> 0]
ClockDate(op, date) == [op |-> op, panic |-> FALSE, flag |-> FALSE, date |-> date]
ClockUnit(op) == [op |-> op, panic |-> FALSE, flag |-> FALSE, date |-> 0]

\* ClockInner::now: `self.dates[self.pos]`, a panic when pos is out of bounds
clock_now(pos, dates) ==
    IF pos < Len(dates) THEN ClockDate("now", dates[pos + 1]) ELSE ClockPanic("now")

\* ClockInner::has_next: `self.pos < self.dates.len() - 1` on usize. With no
\* dates the subtraction overflows: a panic when overflow is checked, and
\* usize::MAX otherwise, which every pos is below
has_next(pos, dates, checks) ==
    IF Len(dates) = 0
    THEN IF checks THEN ClockPanic("has_next") ELSE ClockFlag("has_next", TRUE)
    ELSE ClockFlag("has_next", pos < Len(dates) - 1)

\* ClockInner::tick: the new pos and the panic when it equals dates.len()
clock_tick(pos, dates) ==
    [pos |-> pos + 1,
     ret |-> IF pos + 1 = Len(dates) THEN ClockPanic("tick") ELSE ClockUnit("tick")]

\* ClockInner::peek: `self.dates.clone().into_iter()`
peek(dates) == [i \in 1..Len(dates) |-> dates[i]]

\* a clock as the harness asks for it: the constructor of the builder with
\* its two arguments, and the frequency method called on it
ClockCall(ctor, start, arg, freq) ==
    [ctor |-> ctor, start |-> start, arg |-> arg, freq |-> freq]

NoClockCall == ClockCall("none", 0, 0, "none")

NoPeek == [pos |-> -1, dates |-> <<>>]

BuilderOf(call) ==
    CASE call.ctor = "from_fixed" -> from_fixed(call.start, call.arg)
      [] call.ctor = "from_length_seconds" -> from_length_seconds(call.start, call.arg)
      [] call.ctor = "from_length_days" -> from_length_days(call.start, call.arg)

BuildClock(call) ==
    IF call.freq = "daily" THEN daily(BuilderOf(call)) ELSE every_second(BuilderOf(call))

\* the clocks the harness asks for: by the second from a fixed end (the end
\* before the start included) or a length, by the day from a fixed end that
\* is a whole number of days after the start or one second short of it, or
\* from a length in days
ClockCalls ==
    {ClockCall("from_fixed", s, e, "every_second") : s \in 1..2, e \in 1..(MaxLength + 1)}
    \cup {ClockCall("from_length_seconds", s, n, "every_second") :
             s \in 1..2, n \in 0..MaxLength}
    \cup {ClockCall("from_fixed", s, s + k * SECS_IN_DAY - j, "daily") :
             s \in 1..2, k \in 0..MaxLength, j \in 0..1}
    \cup {ClockCall("from_length_days", s, k, "daily") : s \in 1..2, k \in 0..MaxLength}

\* the clocks the harness builds
ClockInputs == {BuildClock(call) : call \in ClockCalls}

----------------------------------------------------------------------------
(* The HTTP handlers over AppState { exchange: Mutex<UistV1> } *)

\* the worker threads that serve requests
Threads == {1, 2}

Free == 0

Handlers == {"tick", "insert_order", "delete_order", "fetch_quotes", "init", "info"}

NoRequest == [handler |-> "none", arg |-> 0]

\* the engine behind the mutex: the resting book (ids), the staging buffer,
\* the ids executed so far, the next id, and whether a tick is between its
\* matching phase and its admission phase
UistV1_new == [book |-> {}, buffer |-> <<>>, log |-> <<>>, last |-> 0, mid |-> FALSE]

\* the matching phase of tick: every resting order executes
uist_execute(ex) ==
    [ex EXCEPT !.log = @ \o AscendingSeq(ex.book), !.book = {}, !.mid = TRUE]

\* the admission phase of tick: the staged orders get the next ids and rest
uist_admit(ex) ==
    [ex EXCEPT !.book = @ \cup {ex.last + i - 1 : i \in 1..Len(ex.buffer)},
               !.last = @ + Len(ex.buffer),
               !.buffer = <<>>,
               !.mid = FALSE]

uist_insert_order(ex, order) == [ex EXCEPT !.buffer = Append(@, order)]

uist_delete_order(ex, order_id) == [ex EXCEPT !.book = @ \ {order_id}]

\* what the engine call of a handler does when it runs alone
EngineCall(ex, req) ==
    CASE req.handler = "tick" -> uist_admit(uist_execute(ex))
      [] req.handler = "insert_order" -> uist_insert_order(ex, req.arg)
      [] req.handler = "delete_order" -> uist_delete_order(ex, req.arg)
      [] OTHER -> ex

\* the lock as it would be if it were granted while another thread holds it
lock_exchange_shared(holder, th) == Some(th)

\* `app.exchange.lock().unwrap()`: the new holder, or None while the mutex is
\* held (the thread blocks)
lock_exchange(holder, th) == IF holder = Free THEN Some(th) ELSE None

----------------------------------------------------------------------------
(* Initial states *)

NoCall == [op |-> "none", quotes |-> EmptyMap, trades |-> <<>>, now |-> 0,
           book |-> EmptyMap, staged |-> <<>>]

InitV2 ==
    /\ inner = EmptyMap
    /\ last_order_id = 0
    /\ order_buffer = <<>>
    /\ order_result_log = <<>>
    /\ executed_trades = <<>>
    /\ inserted_orders = <<>>
    /\ admitted = <<>>
    /\ last_call = NoCall

InitDiana ==
    /\ diana_inner = EmptyMap
    /\ diana_last = 0
    /\ diana_issued = <<>>
    /\ diana_trades = <<>>
    /\ diana_call = [op |-> "none", date |-> 0, book |-> EmptyMap, keys |-> <<>>]
    /\ diana_completed = {}
    /\ diana_waited = {}

NoClock ==
    /\ overflow_checks = FALSE
    /\ clock_call = NoClockCall
    /\ clock_dates = <<>>

InitClock ==
    /\ clock_pos = 0
    /\ clock_panicked = FALSE
    /\ clock_ret = ClockUnit("none")
    /\ clock_unguarded = FALSE
    /\ clock_peeked = NoPeek

InitServer ==
    /\ srv_exchange = UistV1_new
    /\ srv_mutex = Free
    /\ srv_pc = [th \in Threads |-> "idle"]
    /\ srv_req = [th \in Threads |-> NoRequest]
    /\ srv_locked_at = [th \in Threads |-> UistV1_new]
    /\ srv_next = 0
    /\ srv_saw_mid = FALSE

----------------------------------------------------------------------------
(* Broker: SingleBroker, ConcurrentBroker, and StaticWeightStrategy over one *)

BrokerKinds == {"SingleBroker", "ConcurrentBroker"}

\* amounts passed to the cash operations (any f64 can be passed)
CashValues == -1..2

BrokerCashEvent(typ, value) == [typ |-> typ, value |-> value]

StrategyEvent(typ, value) == [typ |-> typ, value |-> value]

ExchangeTrade(symbol, value, quantity, typ) ==
    [symbol |-> symbol, value |-> value, quantity |-> quantity, typ |-> typ]

Dividend(symbol, value) == [symbol |-> symbol, value |-> value]

\* SingleBroker::credit
credit(balance, value) ==
    [cash |-> value + balance, event |-> BrokerCashEvent("DepositSuccess", value)]

\* debit as it would be if it took the amount whatever the balance
debit_unchecked(balance, value) ==
    [cash |-> balance - value, event |-> BrokerCashEvent("WithdrawSuccess", value)]

\* SingleBroker::debit
debit(balance, value) ==
    IF value > balance
    THEN [cash |-> balance, event |-> BrokerCashEvent("WithdrawFailure", value)]
    ELSE [cash |-> balance - value, event |-> BrokerCashEvent("WithdrawSuccess", value)]

\* SingleBroker::debit_force
debit_force(balance, value) ==
    [cash |-> balance - value, event |-> BrokerCashEvent("WithdrawSuccess", value)]

\* ConcurrentBroker::credit
concurrent_credit(balance, value) ==
    [cash |-> value + balance, event |-> BrokerCashEvent("DepositSuccess", value)]

\* ConcurrentBroker::debit
concurrent_debit(balance, value) ==
    IF value > balance
    THEN [cash |-> balance, event |-> BrokerCashEvent("WithdrawFailure", value)]
    ELSE [cash |-> balance - value, event |-> BrokerCashEvent("WithdrawSuccess", value)]

\* ConcurrentBroker::debit_force
concurrent_debit_force(balance, value) ==
    [cash |-> balance - value, event |-> BrokerCashEvent("WithdrawSuccess", value)]

\* SingleBroker::get_position_qty
get_position_qty(held, symbol) ==
    IF symbol \in DOMAIN held THEN Some(held[symbol]) ELSE None

\* Option::unwrap_or
unwrap_or(o, default) == IF IsSome(o) THEN Unwrap(o) ELSE default

\* update_holdings as it would be if it stored every quantity, zero included
update_holdings_keeps_zero(held, symbol, change) == MapInsert(held, symbol, change)

\* SingleBroker::update_holdings
update_holdings(held, symbol, change) ==
    IF change = 0 THEN MapRemove(held, symbol) ELSE MapInsert(held, symbol, change)

\* the sum pay_dividends collects: quantity held times dividend, for the
\* dividends of symbols the broker holds
RECURSIVE dividend_value(_, _)
dividend_value(held, dividends) ==
    IF dividends = <<>> THEN 0
    ELSE (IF IsSome(get_position_qty(held, Head(dividends).symbol))
          THEN Unwrap(get_position_qty(held, Head(dividends).symbol))
               * Head(dividends).value
          ELSE 0)
         + dividend_value(held, Tail(dividends))

\* SingleBroker::pay_dividends
pay_dividends(brkr, dividends) ==
    [brkr EXCEPT !.cash = credit(brkr.cash, dividend_value(brkr.holdings, dividends)).cash]

\* SingleExchange::check: the exchange executes orders and appends the trades
\* to its log
exchange_check(log, executed) == log \o executed

\* SingleExchange::fetch_trades: the trades of the log from index `from` on
fetch_trades(log, from) == SubSeq(log, from + 1, Len(log))

\* the new quantity of the trade's symbol in the loop body of check
updated(held, trade) ==
    IF trade.typ = "Buy"
    THEN unwrap_or(get_position_qty(held, trade.symbol), 0) + trade.quantity
    ELSE unwrap_or(get_position_qty(held, trade.symbol), 0) - trade.quantity

\* the loop body of SingleBroker::check for one completed trade
reconcile_trade(brkr, trade) ==
    [cash |-> IF trade.typ = "Buy"
              THEN debit_force(brkr.cash, trade.value).cash
              ELSE credit(brkr.cash, trade.value).cash,
     holdings |-> update_holdings(brkr.holdings, trade.symbol,
                                  updated(brkr.holdings, trade)),
     last_seen_trade |-> brkr.last_seen_trade + 1]

\* the loop of SingleBroker::check over completed_trades
RECURSIVE reconcile(_, _)
reconcile(brkr, completed_trades) ==
    IF completed_trades = <<>> THEN brkr
    ELSE reconcile(reconcile_trade(brkr, Head(completed_trades)),
                   Tail(completed_trades))

\* SingleBroker::rebalance_cash: with a negative balance it asks
\* BrokerCalculations::withdraw_cash_with_liquidation for the shortfall, which
\* sends sell orders to the exchange and leaves cash and holdings to the
\* trades that come back
rebalance_cash(brkr) == brkr

\* SingleBroker::check, the exchange's log being `log` after exchange.check()
check(brkr, dividends, log) ==
    rebalance_cash(reconcile(pay_dividends(brkr, dividends),
                             fetch_trades(log, brkr.last_seen_trade)))

\* the trades the exchange can execute
TradeInputs ==
    {ExchangeTrade("ABC", 2, 1, "Buy"), ExchangeTrade("ABC", 1, 1, "Sell"),
     ExchangeTrade("XYZ", 1, 2, "Buy")}

\* what one exchange.check() can execute: nothing, one trade or two
ExecutedInputs ==
    {<<>>} \cup {<<t>> : t \in TradeInputs}
           \cup {<<t, u>> : t \in TradeInputs, u \in TradeInputs}

\* what the data source can hold for the date: no dividend, or one on ABC
DividendInputs == {<<>>, <<Dividend("ABC", 1)>>}

\* CashOperations::deposit_cash of the broker
brkr_deposit_cash(balance, value) ==
    [cash |-> value + balance, event |-> BrokerCashEvent("DepositSuccess", value)]

\* CashOperations::withdraw_cash of the broker
brkr_withdraw_cash(balance, value) ==
    IF value > balance
    THEN [cash |-> balance, event |-> BrokerCashEvent("WithdrawFailure", value)]
    ELSE [cash |-> balance - value, event |-> BrokerCashEvent("WithdrawSuccess", value)]

\* the events CashOperations::withdraw_cash_with_liquidation can answer with
LiquidationOutcomes ==
    {"WithdrawSuccess", "WithdrawFailure", "OperationComplete", "OperationFailed"}

\* CashOperations::withdraw_cash_with_liquidation of the broker, answering
\* with `outcome`: it raises the amount by sending sell orders to the exchange,
\* and the balance changes when their trades come back
brkr_withdraw_cash_with_liquidation(balance, value, outcome) ==
    [cash |-> balance, event |-> BrokerCashEvent(outcome, value)]

\* StaticWeightStrategy::deposit_cash
deposit_cash(strat, value) ==
    [cash |-> brkr_deposit_cash(strat.cash, value).cash,
     net_cash_flow |-> strat.net_cash_flow + strat.net_cash_flow,
     brkr_event |-> brkr_deposit_cash(strat.cash, value).event,
     event |-> StrategyEvent("DepositSuccess", value)]

\* StaticWeightStrategy::init: the deposit; the orders towards the target
\* weights go to the exchange
init(strat, initial_cash) == deposit_cash(strat, initial_cash)

\* the body shared by withdraw_cash and withdraw_cash_with_liquidation of
\* StaticWeightStrategy, `res` being what the broker answered
withdrawn_from(strat, value, res) ==
    IF res.event.typ = "WithdrawSuccess"
    THEN [cash |-> res.cash,
          net_cash_flow |-> strat.net_cash_flow - res.event.value,
          brkr_event |-> res.event,
          event |-> StrategyEvent("WithdrawSuccess", value)]
    ELSE [cash |-> res.cash,
          net_cash_flow |-> strat.net_cash_flow,
          brkr_event |-> res.event,
          event |-> StrategyEvent("WithdrawFailure", value)]

\* StaticWeightStrategy::withdraw_cash
withdraw_cash(strat, value) ==
    withdrawn_from(strat, value, brkr_withdraw_cash(strat.cash, value))

\* StaticWeightStrategy::withdraw_cash_with_liquidation
withdraw_cash_with_liquidation(strat, value, outcome) ==
    withdrawn_from(strat, value,
                   brkr_withdraw_cash_with_liquidation(strat.cash, value, outcome))

NoBrokerCall ==
    [op |-> "none", value |-> 0, event |-> BrokerCashEvent("none", 0),
     dividends |-> <<>>, executed |-> <<>>]

BrokerCall(op, value, event) ==
    [op |-> op, value |-> value, event |-> event, dividends |-> <<>>,
     executed |-> <<>>]

\* SingleBrokerBuilder::build / ConcurrentBrokerBuilder::build and
\* StaticWeightStrategyBuilder::default: no cash, no holdings, no trade seen
InitBroker ==
    /\ brk_kind \in (IF engine \in {"Broker", "Strategy"} THEN BrokerKinds ELSE {"none"})
    /\ cash = 0
    /\ holdings = EmptyMap
    /\ last_seen_trade = 0
    /\ trade_log = <<>>
    /\ brk_applied = <<>>
    /\ brk_ret = NoBrokerCall
    /\ brk_calls = 0
    /\ net_cash_flow = 0
    /\ strat_deposited = 0
    /\ strat_withdrawn = 0

\* UistV2::new (OrderBook::default, no latency), OrderBook::with_latency driven
\* directly, Diana::new, a clock from ClockBuilder in either build profile, or
\* the HTTP server over a new engine
InitEngine ==
    /\ now = 0
    /\ InitV2
    /\ InitDiana
    /\ InitClock
    /\ InitServer
    /\ \/ engine = "UistV2" /\ latency = LatencyNone /\ NoClock
       \/ engine = "OrderBook" /\ latency = FixedPeriod(Period) /\ NoClock
       \/ engine = "Diana" /\ latency = LatencyNone /\ NoClock
       \/ engine = "Server" /\ latency = LatencyNone /\ NoClock
       \/ engine = "Broker" /\ latency = LatencyNone /\ NoClock
       \/ engine = "Strategy" /\ latency = LatencyNone /\ NoClock
       \/ /\ engine = "Clock"
          /\ latency = LatencyNone
          /\ overflow_checks \in BOOLEAN
          /\ clock_call \in ClockCalls
          /\ clock_dates = BuildClock(clock_call)
    /\ InitBroker

\* the harness submits MaxOrders orders to the V2 engine at most, over a feed
\* of one venue
Init == order_cap = MaxOrders /\ market = "single" /\ InitEngine

\* the harness submits one order more: three orders can meet in one call
InitCrowded == order_cap = MaxOrders + 1 /\ market = "single" /\ InitEngine

\* the feed covers a second venue and a second symbol that prints
InitWide == order_cap = MaxOrders /\ market = "wide" /\ InitEngine

----------------------------------------------------------------------------
(* Actions *)

\* UistV2::insert_order
InsertOrder(order) ==
    /\ engine = "UistV2"
    /\ last_order_id + Len(order_buffer) < order_cap
    /\ order_buffer' = Append(order_buffer, order)
    /\ UNCHANGED <<brokervars, engine, order_cap, market, now, latency, inner, last_order_id, order_result_log,
                   executed_trades, inserted_orders, admitted, last_call, dianavars, clockvars, servervars>>

\* the loop body of tick as it would be if the InnerOrder were not pushed to
\* inserted_orders
Admitted_unreported(book, r) ==
    [inner |-> r.inner, last_order_id |-> r.last_order_id,
     inserted_orders |-> book.inserted_orders]

\* `self.orderbook.insert_order(order.clone(), now); inserted_orders.push(..)`
Admitted(book, r) ==
    [inner |-> r.inner, last_order_id |-> r.last_order_id,
     inserted_orders |-> Append(book.inserted_orders, r.inner_order)]

\* `for order in self.order_buffer.iter()` of UistV2::tick
RECURSIVE AdmitAll(_, _, _, _)
AdmitAll(book, buffer, t, i) ==
    IF i > Len(buffer) THEN book
    ELSE AdmitAll(Admitted(book, insert_order(book, buffer[i], t)), buffer, t, i + 1)

\* the return of tick as it would be if every tick used up an order id
TickReturn_uses_id(executed, adm) ==
    [inner |-> adm.inner, last_order_id |-> adm.last_order_id + 1,
     executed_trades |-> executed, inserted_orders |-> adm.inserted_orders]

\* the pair tick returns, with the book it leaves
TickReturn(executed, adm) ==
    [inner |-> adm.inner, last_order_id |-> adm.last_order_id,
     executed_trades |-> executed, inserted_orders |-> adm.inserted_orders]

\* the second half of tick: sort the buffer and admit it into the book that
\* execute_orders left
AdmitStaged(ex, last, buffer, t) ==
    TickReturn(ex.trade_results,
               AdmitAll([inner |-> ex.inner, last_order_id |-> last,
                         inserted_orders |-> <<>>],
                        sort_order_buffer(buffer), t, 1))

\* tick as it would be if the staged orders were admitted before matching
tick_admit_first(book, buffer, lat, quotes, trades, t) ==
    LET adm == AdmitAll([inner |-> book.inner, last_order_id |-> book.last_order_id,
                         inserted_orders |-> <<>>],
                        sort_order_buffer(buffer), t, 1)
        ex == execute_orders(adm.inner, lat, priority_setting, quotes, trades, t)
    IN [inner |-> ex.inner, last_order_id |-> adm.last_order_id,
        executed_trades |-> ex.trade_results, inserted_orders |-> adm.inserted_orders]

\* UistV2::tick: execute_orders on the resting book first, the staged orders
\* admitted afterwards; returns the book after the tick and the two lists
tick(book, buffer, lat, quotes, trades, t) ==
    AdmitStaged(execute_orders(book.inner, lat, priority_setting, quotes, trades, t),
                book.last_order_id, buffer, t)

Tick(quotes, trades) ==
    /\ engine = "UistV2"
    /\ now <= MaxTime
    /\ now' = now + 1
    /\ \E r \in {tick([inner |-> inner, last_order_id |-> last_order_id], order_buffer,
                      latency, quotes, trades, now)} :
          /\ inner' = r.inner
          /\ last_order_id' = r.last_order_id
          /\ executed_trades' = r.executed_trades
          /\ inserted_orders' = r.inserted_orders
          /\ order_result_log' = order_result_log \o r.executed_trades
          /\ admitted' = admitted \o r.inserted_orders
    /\ order_buffer' = <<>>
    /\ last_call' = [op |-> "tick", quotes |-> quotes, trades |-> trades, now |-> now,
                     book |-> inner, staged |-> order_buffer]
    /\ UNCHANGED <<brokervars, engine, order_cap, market, latency, dianavars, clockvars, servervars>>

\* OrderBook::insert_order called directly
BookInsertOrder(order) ==
    /\ engine = "OrderBook"
    /\ last_order_id < order_cap
    /\ \E r \in {insert_order([inner |-> inner, last_order_id |-> last_order_id],
                              order, now)} :
          /\ inner' = r.inner
          /\ last_order_id' = r.last_order_id
          /\ admitted' = Append(admitted, r.inner_order)
    /\ UNCHANGED <<brokervars, engine, order_cap, market, now, latency, order_buffer, order_result_log,
                   executed_trades, inserted_orders, last_call, dianavars, clockvars, servervars>>

\* OrderBook::execute_orders called directly
ExecuteOrders(quotes, trades) ==
    /\ engine = "OrderBook"
    /\ now <= MaxTime
    /\ now' = now + 1
    /\ \E r \in {execute_orders(inner, latency, priority_setting, quotes, trades, now)} :
          /\ inner' = r.inner
          /\ executed_trades' = r.trade_results
          /\ order_result_log' = order_result_log \o r.trade_results
    /\ last_call' = [op |-> "execute_orders", quotes |-> quotes, trades |-> trades,
                     now |-> now, book |-> inner, staged |-> <<>>]
    /\ UNCHANGED <<brokervars, engine, order_cap, market, latency, last_order_id, order_buffer, inserted_orders,
                   admitted, dianavars, clockvars, servervars>>

\* Diana::insert_order
DianaInsertOrder(order) ==
    /\ engine = "Diana"
    /\ diana_last < MaxOrders
    /\ \E r \in {diana_insert_order([inner |-> diana_inner, last |-> diana_last], order)} :
          /\ diana_inner' = r.inner
          /\ diana_last' = r.last
          /\ diana_issued' = Append(diana_issued, r.id)
    /\ UNCHANGED <<brokervars, engine, order_cap, market, now, v2vars, clockvars, servervars, diana_trades, diana_call, diana_completed,
                   diana_waited>>

\* Diana::delete_order
DianaDeleteOrder(order_id) ==
    /\ engine = "Diana"
    /\ diana_inner' = diana_delete_order(diana_inner, order_id)
    /\ UNCHANGED <<brokervars, engine, order_cap, market, now, v2vars, clockvars, servervars, diana_last, diana_issued, diana_trades,
                   diana_call, diana_completed, diana_waited>>

\* Diana::execute_orders at the clock's timestamp
DianaExecuteOrders ==
    /\ engine = "Diana"
    /\ now <= MaxTime
    /\ now' = now + 1
    /\ \E keys \in KeyOrders(DOMAIN diana_inner) :
       \E r \in {diana_execute_orders(diana_inner, now, PenelopeSource, keys)} :
          /\ diana_inner' = r.inner
          /\ diana_trades' = r.trade_results
          /\ diana_call' = [op |-> "execute_orders", date |-> now,
                            book |-> diana_inner, keys |-> keys]
          /\ diana_completed' = diana_completed \cup (DOMAIN diana_inner \ DOMAIN r.inner)
          /\ diana_waited' = diana_waited \cup
                {k \in DOMAIN diana_inner :
                    ~IsSome(get_quote(PenelopeSource, now, diana_inner[k].symbol))}
    /\ UNCHANGED <<brokervars, engine, order_cap, market, v2vars, clockvars, servervars, diana_last, diana_issued>>

\* ClockInner::has_next
ClockHasNext ==
    /\ engine = "Clock"
    /\ ~clock_panicked
    /\ clock_ret' = has_next(clock_pos, clock_dates, overflow_checks)
    /\ clock_panicked' = clock_ret'.panic
    /\ UNCHANGED <<brokervars, engine, order_cap, market, now, v2vars, dianavars, servervars, overflow_checks,
                   clock_call, clock_peeked, clock_dates, clock_pos, clock_unguarded>>

\* ClockInner::now
ClockNow ==
    /\ engine = "Clock"
    /\ ~clock_panicked
    /\ clock_ret' = clock_now(clock_pos, clock_dates)
    /\ clock_panicked' = clock_ret'.panic
    /\ UNCHANGED <<brokervars, engine, order_cap, market, now, v2vars, dianavars, servervars, overflow_checks,
                   clock_call, clock_peeked, clock_dates, clock_pos, clock_unguarded>>

\* ClockInner::tick
ClockTick ==
    /\ engine = "Clock"
    /\ ~clock_panicked
    /\ clock_pos < MaxTicks
    /\ \E r \in {clock_tick(clock_pos, clock_dates)} :
          /\ clock_pos' = r.pos
          /\ clock_ret' = r.ret
          /\ clock_panicked' = r.ret.panic
    /\ clock_unguarded' = (clock_unguarded \/ clock_ret /= ClockFlag("has_next", TRUE))
    /\ UNCHANGED <<brokervars, engine, order_cap, market, now, v2vars, dianavars, servervars, overflow_checks,
                   clock_call, clock_peeked, clock_dates>>

\* ClockInner::peek
ClockPeek ==
    /\ engine = "Clock"
    /\ ~clock_panicked
    /\ clock_peeked' = [pos |-> clock_pos, dates |-> peek(clock_dates)]
    /\ UNCHANGED <<brokervars, engine, order_cap, market, now, v2vars, dianavars, servervars, overflow_checks,
                   clock_call, clock_dates, clock_pos, clock_panicked, clock_ret,
                   clock_unguarded>>

\* a request arrives at a worker thread and its handler starts
SrvRequest(th, handler, arg) ==
    /\ engine = "Server"
    /\ srv_pc[th] = "idle"
    /\ handler = "insert_order" => (srv_next < MaxOrders /\ arg = srv_next)
    /\ handler \notin {"insert_order", "delete_order"} => arg = 0
    /\ srv_pc' = [srv_pc EXCEPT ![th] = "lock"]
    /\ srv_req' = [srv_req EXCEPT ![th] = [handler |-> handler, arg |-> arg]]
    /\ srv_next' = IF handler = "insert_order" THEN srv_next + 1 ELSE srv_next
    /\ UNCHANGED <<brokervars, engine, order_cap, market, now, v2vars, dianavars, clockvars, srv_exchange, srv_mutex,
                   srv_locked_at, srv_saw_mid>>

\* `let mut ex = app.exchange.lock().unwrap();`
SrvLock(th) ==
    /\ engine = "Server"
    /\ srv_pc[th] = "lock"
    /\ IsSome(lock_exchange(srv_mutex, th))
    /\ srv_mutex' = Unwrap(lock_exchange(srv_mutex, th))
    /\ srv_pc' = [srv_pc EXCEPT ![th] = "call"]
    /\ srv_locked_at' = [srv_locked_at EXCEPT ![th] = srv_exchange]
    /\ UNCHANGED <<brokervars, engine, order_cap, market, now, v2vars, dianavars, clockvars, srv_exchange, srv_req,
                   srv_next, srv_saw_mid>>

\* the engine call of the handler; the call of tick gets as far as the end of
\* its matching phase
SrvCall(th) ==
    /\ engine = "Server"
    /\ srv_pc[th] = "call"
    /\ srv_saw_mid' = (srv_saw_mid \/ srv_exchange.mid)
    /\ IF srv_req[th].handler = "tick"
       THEN /\ srv_exchange' = uist_execute(srv_exchange)
            /\ srv_pc' = [srv_pc EXCEPT ![th] = "mid"]
       ELSE /\ srv_exchange' = EngineCall(srv_exchange, srv_req[th])
            /\ srv_pc' = [srv_pc EXCEPT ![th] = "reply"]
    /\ UNCHANGED <<brokervars, engine, order_cap, market, now, v2vars, dianavars, clockvars, srv_mutex, srv_req,
                   srv_locked_at, srv_next>>

\* the rest of `ex.tick()`: the admission phase
SrvTickFinish(th) ==
    /\ engine = "Server"
    /\ srv_pc[th] = "mid"
    /\ srv_exchange' = uist_admit(srv_exchange)
    /\ srv_pc' = [srv_pc EXCEPT ![th] = "reply"]
    /\ UNCHANGED <<brokervars, engine, order_cap, market, now, v2vars, dianavars, clockvars, srv_mutex, srv_req,
                   srv_locked_at, srv_next, srv_saw_mid>>

\* the handler returns its web::Json and the MutexGuard is dropped
SrvReturn(th) ==
    /\ engine = "Server"
    /\ srv_pc[th] = "reply"
    /\ srv_mutex' = IF srv_mutex = th THEN Free ELSE srv_mutex
    /\ srv_pc' = [srv_pc EXCEPT ![th] = "idle"]
    /\ srv_req' = [srv_req EXCEPT ![th] = NoRequest]
    /\ srv_locked_at' = [srv_locked_at EXCEPT ![th] = UistV1_new]
    /\ UNCHANGED <<brokervars, engine, order_cap, market, now, v2vars, dianavars, clockvars, srv_exchange, srv_next,
                   srv_saw_mid>>

\* SingleBroker::credit / ConcurrentBroker::credit
BrokerCredit(value) ==
    /\ engine = "Broker"
    /\ brk_calls < MaxCalls
    /\ \E r \in {IF brk_kind = "SingleBroker" THEN credit(cash, value)
                 ELSE concurrent_credit(cash, value)} :
          /\ cash' = r.cash
          /\ brk_ret' = BrokerCall("credit", value, r.event)
    /\ brk_calls' = brk_calls + 1
    /\ UNCHANGED <<engine, order_cap, market, now, v2vars, dianavars, clockvars, servervars,
                   brk_kind, holdings, last_seen_trade, trade_log, brk_applied,
                   net_cash_flow, strat_deposited, strat_withdrawn>>

\* SingleBroker::debit / ConcurrentBroker::debit
BrokerDebit(value) ==
    /\ engine = "Broker"
    /\ brk_calls < MaxCalls
    /\ \E r \in {IF brk_kind = "SingleBroker" THEN debit(cash, value)
                 ELSE concurrent_debit(cash, value)} :
          /\ cash' = r.cash
          /\ brk_ret' = BrokerCall("debit", value, r.event)
    /\ brk_calls' = brk_calls + 1
    /\ UNCHANGED <<engine, order_cap, market, now, v2vars, dianavars, clockvars, servervars,
                   brk_kind, holdings, last_seen_trade, trade_log, brk_applied,
                   net_cash_flow, strat_deposited, strat_withdrawn>>

\* SingleBroker::debit_force / ConcurrentBroker::debit_force
BrokerDebitForce(value) ==
    /\ engine = "Broker"
    /\ brk_calls < MaxCalls
    /\ \E r \in {IF brk_kind = "SingleBroker" THEN debit_force(cash, value)
                 ELSE concurrent_debit_force(cash, value)} :
          /\ cash' = r.cash
          /\ brk_ret' = BrokerCall("debit_force", value, r.event)
    /\ brk_calls' = brk_calls + 1
    /\ UNCHANGED <<engine, order_cap, market, now, v2vars, dianavars, clockvars, servervars,
                   brk_kind, holdings, last_seen_trade, trade_log, brk_applied,
                   net_cash_flow, strat_deposited, strat_withdrawn>>

\* SingleBroker::check, the data source holding `dividends` for the date and
\* the exchange executing `executed` in its own check
BrokerCheck(dividends, executed) ==
    /\ engine = "Broker"
    /\ brk_kind = "SingleBroker"
    /\ brk_calls < MaxCalls
    /\ Len(trade_log) + Len(executed) <= MaxTrades
    /\ trade_log' = exchange_check(trade_log, executed)
    /\ \E r \in {check([cash |-> cash, holdings |-> holdings,
                        last_seen_trade |-> last_seen_trade],
                       dividends, exchange_check(trade_log, executed))} :
          /\ cash' = r.cash
          /\ holdings' = r.holdings
          /\ last_seen_trade' = r.last_seen_trade
          /\ brk_applied' =
                [i \in 1..Len(exchange_check(trade_log, executed)) |->
                    (IF i <= Len(brk_applied) THEN brk_applied[i] ELSE 0)
                    + (IF i > last_seen_trade /\ i <= r.last_seen_trade THEN 1 ELSE 0)]
    /\ brk_ret' = [op |-> "check", value |-> 0, event |-> BrokerCashEvent("none", 0),
                   dividends |-> dividends, executed |-> executed]
    /\ brk_calls' = brk_calls + 1
    /\ UNCHANGED <<engine, order_cap, market, now, v2vars, dianavars, clockvars, servervars,
                   brk_kind, net_cash_flow, strat_deposited, strat_withdrawn>>

\* StaticWeightStrategy::init
StrategyInit(initial_cash) ==
    /\ engine = "Strategy"
    /\ brk_calls < MaxCalls
    /\ \E r \in {init([cash |-> cash, net_cash_flow |-> net_cash_flow], initial_cash)} :
          /\ cash' = r.cash
          /\ net_cash_flow' = r.net_cash_flow
          /\ brk_ret' = BrokerCall("init", initial_cash, r.event)
    /\ strat_deposited' = strat_deposited + initial_cash
    /\ brk_calls' = brk_calls + 1
    /\ UNCHANGED <<engine, order_cap, market, now, v2vars, dianavars, clockvars, servervars,
                   brk_kind, holdings, last_seen_trade, trade_log, brk_applied,
                   strat_withdrawn>>

\* StaticWeightStrategy::withdraw_cash
StrategyWithdrawCash(value) ==
    /\ engine = "Strategy"
    /\ brk_calls < MaxCalls
    /\ \E r \in {withdraw_cash([cash |-> cash, net_cash_flow |-> net_cash_flow], value)} :
          /\ cash' = r.cash
          /\ net_cash_flow' = r.net_cash_flow
          /\ brk_ret' = BrokerCall("withdraw_cash", value, r.event)
          /\ strat_withdrawn' = strat_withdrawn
                + (IF r.brkr_event.typ = "WithdrawSuccess" THEN r.brkr_event.value ELSE 0)
    /\ brk_calls' = brk_calls + 1
    /\ UNCHANGED <<engine, order_cap, market, now, v2vars, dianavars, clockvars, servervars,
                   brk_kind, holdings, last_seen_trade, trade_log, brk_applied,
                   strat_deposited>>

\* StaticWeightStrategy::withdraw_cash_with_liquidation, the broker answering
\* with `outcome`
StrategyWithdrawCashWithLiquidation(value, outcome) ==
    /\ engine = "Strategy"
    /\ brk_calls < MaxCalls
    /\ \E r \in {withdraw_cash_with_liquidation(
                    [cash |-> cash, net_cash_flow |-> net_cash_flow], value, outcome)} :
          /\ cash' = r.cash
          /\ net_cash_flow' = r.net_cash_flow
          /\ brk_ret' = BrokerCall("withdraw_cash_with_liquidation", value, r.event)
          /\ strat_withdrawn' = strat_withdrawn
                + (IF r.brkr_event.typ = "WithdrawSuccess" THEN r.brkr_event.value ELSE 0)
    /\ brk_calls' = brk_calls + 1
    /\ UNCHANGED <<engine, order_cap, market, now, v2vars, dianavars, clockvars, servervars,
                   brk_kind, holdings, last_seen_trade, trade_log, brk_applied,
                   strat_deposited>>

Next ==
    \/ \E order \in OrdersIn(market) : InsertOrder(order)
    \/ \E feed \in FeedsIn(market, now) : Tick(feed.quotes, feed.trades)
    \/ \E order \in OrdersIn(market) : BookInsertOrder(order)
    \/ \E feed \in FeedsIn(market, now) : ExecuteOrders(feed.quotes, feed.trades)
    \/ \E order \in DianaOrderInputs : DianaInsertOrder(order)
    \/ \E order_id \in OrderIds : DianaDeleteOrder(order_id)
    \/ DianaExecuteOrders
    \/ ClockHasNext
    \/ ClockNow
    \/ ClockTick
    \/ ClockPeek
    \/ \E th \in Threads, handler \in Handlers, arg \in OrderIds :
          SrvRequest(th, handler, arg)
    \/ \E th \in Threads : SrvLock(th)
    \/ \E th \in Threads : SrvCall(th)
    \/ \E th \in Threads : SrvTickFinish(th)
    \/ \E th \in Threads : SrvReturn(th)
    \/ \E value \in CashValues : BrokerCredit(value)
    \/ \E value \in CashValues : BrokerDebit(value)
    \/ \E value \in CashValues : BrokerDebitForce(value)
    \/ \E dividends \in DividendInputs, executed \in ExecutedInputs :
          BrokerCheck(dividends, executed)
    \/ \E initial_cash \in CashValues : StrategyInit(initial_cash)
    \/ \E value \in CashValues : StrategyWithdrawCash(value)
    \/ \E value \in CashValues, outcome \in LiquidationOutcomes :
          StrategyWithdrawCashWithLiquidation(value, outcome)

Spec == Init /\ [][Next]_vars

SpecCrowded == InitCrowded /\ [][Next]_vars

SpecWide == InitWide /\ [][Next]_vars

----------------------------------------------------------------------------
(* Vocabulary of the properties *)

Range(seq) == {seq[i] : i \in 1..Len(seq)}

IsFill(r) == r.typ \in {"Buy", "Sell"}

RECURSIVE QuantitySum(_)
QuantitySum(results) ==
    IF results = <<>> THEN 0 ELSE Head(results).quantity + QuantitySum(Tail(results))

\* the fills among `results` that carry order id `id`
FillsOf(results, id) ==
    LET Keep(r) == IsFill(r) /\ r.order_id = id IN SelectSeq(results, Keep)

\* an engine call (tick or execute_orders) has been made
Called == last_call.op /= "none"

\* the results returned before the last call
LogBefore == SubSeq(order_result_log, 1, Len(order_result_log) - Len(executed_trades))

\* the book the last call started from, without its cancels and modifies
PreOrders == WorkingOrders(last_call.book)
PreCancels == {c \in Range(CancelAndModify(last_call.book)) : c.order_type = "Cancel"}
PreModifies == {m \in Range(CancelAndModify(last_call.book)) : m.order_type = "Modify"}

\* the last call emitted a result of type typ that references order id
Referenced(typ, id) ==
    \E r \in Range(executed_trades) : r.typ = typ /\ r.order_id_ref = Some(id)

\* the order as it was returned by insert_order
Submitted(id) == admitted[id + 1]

----------------------------------------------------------------------------
(* C1: UistV2 lookahead-freedom.  No result returned by a tick carries, as   *)
(* order_id or as order_id_ref, the id of an order that was staged before   *)
(* that tick and admitted by it: tick matches the resting book first and    *)
(* admits the staged orders afterwards.                                     *)
C1_StagedOrderNotMatchedBySameTick ==
    last_call.op = "tick" =>
        \A r \in Range(executed_trades), o \in Range(inserted_orders) :
            /\ r.order_id /= o.order_id
            /\ r.order_id_ref /= Some(o.order_id)

\* a tick that returned a fill while it admitted a staged market buy for which
\* the feed showed depth
C1_Witness ==
    /\ last_call.op = "tick"
    /\ \E r \in Range(executed_trades) : IsFill(r)
    /\ \E o \in Range(inserted_orders) :
          /\ o.order_type = "MarketBuy"
          /\ o.exchange \in DOMAIN last_call.quotes
          /\ o.symbol \in DOMAIN last_call.quotes[o.exchange]
          /\ o.order_id \in DOMAIN inner

----------------------------------------------------------------------------
(* C2: V2 no double-fill.  Within one execute_orders call, for every symbol *)
(* and price, the quantities of the Buy/Sell results emitted at that price  *)
(* sum to at most the displayed size of the depth level at that price plus  *)
(* the taker-trade volume at that price.                                    *)

\* the price of a fill: value / quantity
UnitPrice(r) == r.value \div r.quantity

FillsAt(results, symbol, price) ==
    LET Keep(r) == /\ IsFill(r)
                   /\ r.symbol = symbol
                   /\ r.quantity /= 0
                   /\ UnitPrice(r) = price
    IN SelectSeq(results, Keep)

\* the size displayed for the symbol at the price (on any venue, either side)
DisplayedSize(quotes, symbol, price) ==
    LET venues == {v \in DOMAIN quotes : symbol \in DOMAIN quotes[v]}
        levels == UNION {Range(quotes[v][symbol].bids) \cup Range(quotes[v][symbol].asks) :
                         v \in venues}
        sizes == {l.size : l \in {x \in levels : x.price = price}}
    IN IF sizes = {} THEN 0 ELSE CHOOSE m \in sizes : \A x \in sizes : x <= m

RECURSIVE TakerVolume(_, _)
TakerVolume(trades, price) ==
    IF trades = <<>> THEN 0
    ELSE (IF Head(trades).px = price THEN Head(trades).sz ELSE 0)
         + TakerVolume(Tail(trades), price)

C2_NoDoubleFill ==
    Called =>
        \A r \in Range(executed_trades) :
            (IsFill(r) /\ r.quantity /= 0) =>
                QuantitySum(FillsAt(executed_trades, r.symbol, UnitPrice(r)))
                    <= DisplayedSize(last_call.quotes, r.symbol, UnitPrice(r))
                       + TakerVolume(last_call.trades, UnitPrice(r))

\* two resting market buys, each larger than the best ask level, matched in one
\* call: the lower id is filled, the other gets nothing and stays
C2_Witness ==
    /\ Called
    /\ DOMAIN PreOrders = {0, 1}
    /\ PreOrders[0].order_type = "MarketBuy"
    /\ PreOrders[1].order_type = "MarketBuy"
    /\ FillsOf(executed_trades, 0) /= <<>>
    /\ FillsOf(executed_trades, 1) = <<>>
    /\ 1 \in DOMAIN inner

----------------------------------------------------------------------------
(* C3: V2 conservation.  For an order that no Modify result references, the *)
(* quantities of all Buy/Sell results carrying its id sum to at most its    *)
(* submitted qty, and once they sum to its qty no later call returns a fill *)
(* for it.                                                                  *)

ModifyTargeted(id) ==
    \E r \in Range(order_result_log) : r.typ = "Modify" /\ r.order_id_ref = Some(id)

C3_Conservation ==
    \A k \in 1..Len(admitted) :
        LET o == admitted[k] IN
        (~IsCancelOrModify(o) /\ ~ModifyTargeted(o.order_id)) =>
            /\ QuantitySum(FillsOf(order_result_log, o.order_id)) <= o.qty
            /\ (QuantitySum(FillsOf(LogBefore, o.order_id)) = o.qty
                   => FillsOf(executed_trades, o.order_id) = <<>>)

\* an order filled for its whole qty over two levels by an earlier call, the
\* feed showing the same depth again in a later call
C3_Witness ==
    /\ Called
    /\ \E k \in 1..Len(admitted) :
          LET o == admitted[k] IN
          /\ ~IsCancelOrModify(o)
          /\ Len(FillsOf(LogBefore, o.order_id)) = 2
          /\ QuantitySum(FillsOf(LogBefore, o.order_id)) = o.qty
          /\ o.exchange \in DOMAIN last_call.quotes
          /\ o.symbol \in DOMAIN last_call.quotes[o.exchange]

----------------------------------------------------------------------------
(* C4: V2 lifecycle of a partially filled order.  An order whose fill walk  *)
(* in a call emitted at least one trade and left quantity over (and that no *)
(* Cancel or Modify of the call referenced) is in the resting book after    *)
(* the call.                                                                *)
C4_PartiallyFilledOrderStaysResting ==
    Called =>
        \A id \in DOMAIN PreOrders :
            LET fills == FillsOf(executed_trades, id) IN
            (/\ fills /= <<>>
             /\ QuantitySum(fills) < PreOrders[id].qty
             /\ ~Referenced("Cancel", id)
             /\ ~Referenced("Modify", id))
            => id \in DOMAIN inner

----------------------------------------------------------------------------
(* C5: V2 missing depth for a symbol.  A latency-eligible order whose venue *)
(* is in the quotes while its symbol has no depth on that venue (and that   *)
(* no Cancel or Modify of the call referenced) produces no result and is    *)
(* still in the resting book, unchanged, after the call.                    *)

\* t0 + P < now, or no latency model
Eligible(order, t) ==
    latency.kind = "None" \/ order.recieved_timestamp + latency.period < t

C5_MissingSymbolLeavesOrderResting ==
    Called =>
        \A id \in DOMAIN PreOrders :
            LET o == PreOrders[id] IN
            (/\ Eligible(o, last_call.now)
             /\ o.exchange \in DOMAIN last_call.quotes
             /\ o.symbol \notin DOMAIN last_call.quotes[o.exchange]
             /\ ~Referenced("Cancel", id)
             /\ ~Referenced("Modify", id))
            => /\ \A r \in Range(executed_trades) : r.order_id /= id
               /\ id \in DOMAIN inner
               /\ inner[id] = o

----------------------------------------------------------------------------
(* C6: order ids are monotone and unique in both engines.  The k-th         *)
(* admission (OrderBook::insert_order, Diana::insert_order) returns k - 1,  *)
(* whatever was filled, cancelled or deleted in between, and the counter    *)
(* equals the number of admissions.                                         *)
C6_OrderIdsMonotoneUnique ==
    /\ \A k \in 1..Len(admitted) : admitted[k].order_id = k - 1
    /\ last_order_id = Len(admitted)
    /\ \A k \in 1..Len(diana_issued) : diana_issued[k] = k - 1
    /\ diana_last = Len(diana_issued)

\* an admission made after the holder of id 0 was filled and left the book
C6_Witness ==
    /\ Len(admitted) = 2
    /\ FillsOf(order_result_log, 0) /= <<>>
    /\ DOMAIN inner = {1}
    /\ admitted[2].recieved_timestamp > last_call.now

----------------------------------------------------------------------------
(* C7: V2 latency filter.  Under FixedPeriod(P) every fill returned by      *)
(* execute_orders(now) is for an order with t0 + P < now, and an order with *)
(* now <= t0 + P is not filled and stays resting; an eligible market order  *)
(* that is first in the matching pass and has depth is filled, under        *)
(* FixedPeriod and under None.                                              *)

\* the working orders of the last call that no Cancel of the call removed
Survivors == {id \in DOMAIN PreOrders : ~Referenced("Cancel", id)}

HasDepth(order, quotes) ==
    order.exchange \in DOMAIN quotes /\ order.symbol \in DOMAIN quotes[order.exchange]

C7_LatencyFilter ==
    Called =>
        /\ \A r \in Range(executed_trades) :
              IsFill(r) => Eligible(Submitted(r.order_id), last_call.now)
        /\ \A id \in Survivors :
              ~Eligible(PreOrders[id], last_call.now)
              => /\ id \in DOMAIN inner
                 /\ FillsOf(executed_trades, id) = <<>>
        /\ \A id \in Survivors :
              (/\ Eligible(PreOrders[id], last_call.now)
               /\ PreOrders[id].order_type \in {"MarketBuy", "MarketSell"}
               /\ HasDepth(PreOrders[id], last_call.quotes)
               /\ \A other \in Survivors :
                     other < id => ~Eligible(PreOrders[other], last_call.now))
              => FillsOf(executed_trades, id) /= <<>>

\* under FixedPeriod(P), an order received at 0 is filled by the call at P + 1
C7_Witness ==
    /\ Called
    /\ latency.kind = "FixedPeriod"
    /\ last_call.now = latency.period + 1
    /\ \E r \in Range(executed_trades) :
          IsFill(r) /\ Submitted(r.order_id).recieved_timestamp = 0

----------------------------------------------------------------------------
(* C8: V2 Cancel of a present order.  When a Cancel is processed while the  *)
(* order it references is in the working book, exactly one result is        *)
(* emitted for it: a Cancel with value 0, quantity 0, the Cancel's own id   *)
(* and the target as order_id_ref; the target gets no Buy/Sell result in    *)
(* that call, and neither the Cancel nor the target is in the book after.   *)

\* the Cancel finds its target: the target is a working order and no Cancel
\* with a lower id names it
FindsTarget(c) ==
    /\ Unwrap(c.order_id_ref) \in DOMAIN PreOrders
    /\ \A c2 \in PreCancels :
          c2.order_id_ref = c.order_id_ref => c.order_id <= c2.order_id

ResultsOf(results, id) ==
    LET Keep(r) == r.order_id = id IN SelectSeq(results, Keep)

C8_CancelOfPresentOrder ==
    Called =>
        \A c \in PreCancels :
            FindsTarget(c) =>
                LET target == Unwrap(c.order_id_ref) IN
                /\ ResultsOf(executed_trades, c.order_id)
                      = <<OrderResult(c.symbol, 0, 0, last_call.now, "Cancel",
                                      c.order_id, Some(target), c.exchange)>>
                /\ FillsOf(executed_trades, target) = <<>>
                /\ target \notin DOMAIN inner
                /\ c.order_id \notin DOMAIN inner

\* a Cancel applied to an eligible market buy for which the feed showed depth
C8_Witness ==
    /\ Called
    /\ \E c \in PreCancels :
          /\ FindsTarget(c)
          /\ PreOrders[Unwrap(c.order_id_ref)].order_type = "MarketBuy"
          /\ Eligible(PreOrders[Unwrap(c.order_id_ref)], last_call.now)
          /\ HasDepth(PreOrders[Unwrap(c.order_id_ref)], last_call.quotes)

----------------------------------------------------------------------------
(* C9: V2 cancel termination.                                               *)
(* As claimed: once a Cancel referencing order id i has been processed (it  *)
(* was admitted and has left the book), no call returns a Buy/Sell result   *)
(* with order_id i.                                                         *)
C9_NoFillAfterProcessedCancel ==
    \A r \in Range(executed_trades) :
        IsFill(r) =>
            ~\E c \in Range(admitted) :
                /\ c.order_type = "Cancel"
                /\ c.order_id_ref = Some(r.order_id)
                /\ c.order_id \notin DOMAIN inner

(* C9, amended: once a Cancel result referencing order id i has been        *)
(* emitted (the Cancel found order i in the book), no Buy/Sell result with  *)
(* order_id i follows it, in that call or in any later one.                 *)
C9_NoFillAfterCancelResult ==
    \A i, j \in 1..Len(order_result_log) :
        (/\ i < j
         /\ order_result_log[i].typ = "Cancel"
         /\ IsFill(order_result_log[j]))
        => order_result_log[j].order_id /= Unwrap(order_result_log[i].order_id_ref)

\* a market buy was cancelled by an earlier call and the feed of a later call
\* shows depth for it
C9_Witness ==
    /\ Called
    /\ \E c \in Range(LogBefore) :
          /\ c.typ = "Cancel"
          /\ Submitted(Unwrap(c.order_id_ref)).order_type = "MarketBuy"
          /\ HasDepth(Submitted(Unwrap(c.order_id_ref)), last_call.quotes)

----------------------------------------------------------------------------
(* C10: V2 Modify by exhaustion.  When a Modify is processed whose target   *)
(* is in the working book with target.qty + delta <= 0 (no other Cancel or  *)
(* Modify of the call naming that target), the target is removed from the   *)
(* book, gets no fill in that call, and a Modify result is emitted.         *)
C10_ExhaustingModifyRemovesTarget ==
    Called =>
        \A m \in PreModifies :
            LET target == Unwrap(m.order_id_ref) IN
            (/\ target \in DOMAIN PreOrders
             /\ \A x \in (PreCancels \cup PreModifies) \ {m} :
                   x.order_id_ref /= m.order_id_ref
             /\ PreOrders[target].qty + m.qty <= 0)
            => /\ target \notin DOMAIN inner
               /\ FillsOf(executed_trades, target) = <<>>
               /\ \E r \in Range(executed_trades) :
                     r.typ = "Modify" /\ r.order_id = m.order_id

----------------------------------------------------------------------------
(* C11: V2 Modify quantity change.  A Modify whose target is in the working *)
(* book (no other Cancel or Modify of the call naming that target) with     *)
(* delta > 0, or with delta <= 0 and qty + delta > 0, emits exactly one     *)
(* Modify result (value 0, quantity 0, the Modify's id, order_id_ref the    *)
(* target); the target, while it rests, has qty + delta and is otherwise    *)
(* unchanged; and the matching pass of the same call fills it against       *)
(* qty + delta: never for more, and a market order that is first in the     *)
(* pass takes min(qty + delta, size shown on the opposite side).            *)

\* no other Cancel or Modify of the last call names the order that x names
SoleReference(x) ==
    \A y \in (PreCancels \cup PreModifies) \ {x} : y.order_id_ref /= x.order_id_ref

ChangesQty(m) ==
    /\ Unwrap(m.order_id_ref) \in DOMAIN PreOrders
    /\ SoleReference(m)
    /\ (m.qty > 0 \/ PreOrders[Unwrap(m.order_id_ref)].qty + m.qty > 0)

\* no eligible order precedes id in the matching pass of the last call
FirstInPass(id) ==
    \A other \in Survivors : other < id => ~Eligible(PreOrders[other], last_call.now)

RECURSIVE SizeSum(_)
SizeSum(levels) ==
    IF levels = <<>> THEN 0 ELSE Head(levels).size + SizeSum(Tail(levels))

\* the levels a market order takes from: asks for a buy, bids for a sell
OppositeLevels(order, quotes) ==
    IF order.order_type \in {"MarketBuy", "LimitBuy"}
    THEN quotes[order.exchange][order.symbol].asks
    ELSE quotes[order.exchange][order.symbol].bids

Min(a, b) == IF a <= b THEN a ELSE b

C11_ModifyChangesQty ==
    Called =>
        \A m \in PreModifies :
            ChangesQty(m) =>
                LET target == Unwrap(m.order_id_ref)
                    o == PreOrders[target]
                    fills == FillsOf(executed_trades, target)
                IN /\ ResultsOf(executed_trades, m.order_id)
                         = <<OrderResult(m.symbol, 0, 0, last_call.now, "Modify",
                                         m.order_id, Some(target), m.exchange)>>
                   /\ target \in DOMAIN inner
                         => inner[target] = [o EXCEPT !.qty = o.qty + m.qty]
                   /\ QuantitySum(fills) <= o.qty + m.qty
                   /\ (/\ o.order_type \in {"MarketBuy", "MarketSell"}
                       /\ Eligible(o, last_call.now)
                       /\ HasDepth(o, last_call.quotes)
                       /\ FirstInPass(target))
                      => QuantitySum(fills)
                            = Min(o.qty + m.qty, SizeSum(OppositeLevels(o, last_call.quotes)))

\* a Modify raised a market order's qty and the same call filled the order
\* for the raised qty
C11_Witness ==
    /\ Called
    /\ \E m \in PreModifies :
          /\ ChangesQty(m)
          /\ m.qty > 0
          /\ QuantitySum(FillsOf(executed_trades, Unwrap(m.order_id_ref)))
                = PreOrders[Unwrap(m.order_id_ref)].qty + m.qty

----------------------------------------------------------------------------
(* C12: V2 Cancel or Modify with a missing referent.  A Cancel or Modify    *)
(* whose order_id_ref names no order of the working book gets no result;    *)
(* and a call in which every Cancel and Modify is of that kind returns the  *)
(* results, and leaves the resting orders, that the same call returns and   *)
(* leaves on the book without those entries.                                *)

\* the referent of x is not in the working book of the last call
Dangling(x) == Unwrap(x.order_id_ref) \notin DOMAIN PreOrders

\* what is left after the last call of the entries it started from
RestingSince == [id \in DOMAIN inner \cap DOMAIN last_call.book |-> inner[id]]

\* the last call made on the working orders alone
WithoutCancelAndModify ==
    execute_orders(PreOrders, latency, priority_setting, last_call.quotes,
                   last_call.trades, last_call.now)

C12_MissingReferentIsNoOp ==
    Called =>
        /\ \A x \in PreCancels \cup PreModifies :
              Dangling(x) => ResultsOf(executed_trades, x.order_id) = <<>>
        /\ (\A x \in PreCancels \cup PreModifies : Dangling(x))
              => /\ executed_trades = WithoutCancelAndModify.trade_results
                 /\ RestingSince = WithoutCancelAndModify.inner

\* a call with a Cancel or Modify naming no working order, and an order that
\* the same call filled
C12_Witness ==
    /\ Called
    /\ \E x \in PreCancels \cup PreModifies : Dangling(x)
    /\ \A x \in PreCancels \cup PreModifies : Dangling(x)
    /\ \E id \in DOMAIN PreOrders : FillsOf(executed_trades, id) /= <<>>

----------------------------------------------------------------------------
(* C13: V2 fill walk through levels.  For an order that is first in the     *)
(* matching pass (no level touched before it in the call), not named by a   *)
(* Cancel or Modify of the call and with no taker-volume claim at its own   *)
(* price, the fills are exactly those of a walk over the opposite side in   *)
(* feed order (asks ascending for a buy, bids descending for a sell): only  *)
(* levels within the limit (every level for a market order), each fill      *)
(* min(remaining, level size) with value = level price * quantity, ending   *)
(* when nothing remains; buys give Buy results and sells Sell results.      *)

IsLimit(order) == order.order_type \in {"LimitBuy", "LimitSell"}

\* the level is within the order's limit
WithinLimit(order, level) ==
    IF ~IsLimit(order) THEN TRUE
    ELSE IF order.order_type = "LimitBuy"
         THEN level.price <= Unwrap(order.price)
         ELSE level.price >= Unwrap(order.price)

\* the <<typ, quantity, value>> of the fills of a walk over `levels`
RECURSIVE LevelWalk(_, _, _)
LevelWalk(order, levels, remaining) ==
    IF levels = <<>> \/ remaining = 0 THEN <<>>
    ELSE IF WithinLimit(order, Head(levels))
         THEN LET qty == Min(remaining, Head(levels).size)
              IN <<[typ |-> IF order.order_type \in {"MarketBuy", "LimitBuy"}
                            THEN "Buy" ELSE "Sell",
                    quantity |-> qty,
                    value |-> Head(levels).price * qty]>>
                 \o LevelWalk(order, Tail(levels), remaining - qty)
         ELSE LevelWalk(order, Tail(levels), remaining)

\* the own side of the book: bids for a buy, asks for a sell
OwnLevels(order, quotes) ==
    IF order.order_type \in {"MarketBuy", "LimitBuy"}
    THEN quotes[order.exchange][order.symbol].bids
    ELSE quotes[order.exchange][order.symbol].asks

\* a limit order resting at a price of its own side at which a taker print
\* was made in the call
AtTouchWithPrint(order) ==
    /\ IsLimit(order)
    /\ \E l \in Range(OwnLevels(order, last_call.quotes)) : l.price = Unwrap(order.price)
    /\ \E tr \in Range(last_call.trades) : tr.px = Unwrap(order.price)

Summary(results) ==
    [i \in 1..Len(results) |->
        [typ |-> results[i].typ, quantity |-> results[i].quantity,
         value |-> results[i].value]]

\* the order is matched by the last call on a book nothing has touched
WalksUntouched(id) ==
    /\ id \in DOMAIN PreOrders
    /\ Eligible(PreOrders[id], last_call.now)
    /\ HasDepth(PreOrders[id], last_call.quotes)
    /\ FirstInPass(id)
    /\ ~Referenced("Cancel", id)
    /\ ~Referenced("Modify", id)

C13_FillWalkThroughLevels ==
    Called =>
        \A id \in DOMAIN PreOrders :
            (WalksUntouched(id) /\ ~AtTouchWithPrint(PreOrders[id]))
            => Summary(ResultsOf(executed_trades, id))
                  = LevelWalk(PreOrders[id],
                              OppositeLevels(PreOrders[id], last_call.quotes),
                              PreOrders[id].qty)

\* a limit buy walked the asks, took the level at its limit and left the
\* level above it
C13_Witness ==
    /\ Called
    /\ \E id \in DOMAIN PreOrders :
          /\ WalksUntouched(id)
          /\ ~AtTouchWithPrint(PreOrders[id])
          /\ PreOrders[id].order_type = "LimitBuy"
          /\ FillsOf(executed_trades, id) /= <<>>
          /\ \E l \in Range(OppositeLevels(PreOrders[id], last_call.quotes)) :
                l.price > Unwrap(PreOrders[id].price)

----------------------------------------------------------------------------
(* C14: V2 passive fill at the touch is capped by traded volume.  A limit   *)
(* buy whose price is the price of a bid level, or a limit sell whose price *)
(* is the price of an ask level, is filled at that price for                *)
(* min(order qty, taker volume printed at that price and not yet consumed   *)
(* in the call), in one fill, and gets no fill at that price when no such   *)
(* volume is left.                                                          *)

\* the order rests at a price of its own side of the book
AtTouch(order) ==
    /\ IsLimit(order)
    /\ \E l \in Range(OwnLevels(order, last_call.quotes)) : l.price = Unwrap(order.price)

\* the fills among `results` for the symbol made at the price
FillsAtPrice(results, symbol, price) ==
    LET Keep(r) == IsFill(r) /\ r.symbol = symbol /\ r.value = price * r.quantity
    IN SelectSeq(results, Keep)

\* the fills of the last call at the price that precede the fills of order id
ConsumedBefore(id, symbol, price) ==
    LET Keep(r) == r.order_id < id
    IN QuantitySum(SelectSeq(FillsAtPrice(executed_trades, symbol, price), Keep))

\* the taker volume at the order's price that the call has not yet consumed
\* when it reaches the order
VolumeLeft(o) ==
    TakerVolume(last_call.trades, Unwrap(o.price))
        - ConsumedBefore(o.order_id, o.symbol, Unwrap(o.price))

C14_PassiveFillCappedByTradedVolume ==
    Called =>
        \A id \in DOMAIN PreOrders :
            LET o == PreOrders[id] IN
            (/\ Eligible(o, last_call.now)
             /\ HasDepth(o, last_call.quotes)
             /\ AtTouch(o)
             /\ ~Referenced("Cancel", id)
             /\ ~Referenced("Modify", id))
            => Summary(FillsAtPrice(ResultsOf(executed_trades, id), o.symbol,
                                    Unwrap(o.price)))
                  = IF VolumeLeft(o) > 0
                    THEN <<[typ |-> IF o.order_type = "LimitBuy" THEN "Buy" ELSE "Sell",
                            quantity |-> Min(o.qty, VolumeLeft(o)),
                            value |-> Unwrap(o.price) * Min(o.qty, VolumeLeft(o))]>>
                    ELSE <<>>

----------------------------------------------------------------------------
(* C15: V2 unfilled order keeps resting.  A latency-eligible order with     *)
(* depth present that gets no result in a call (and is named by no Cancel   *)
(* or Modify of the call) is in the resting book after the call with the    *)
(* id, qty, price and received timestamp it had before.                     *)
C15_UnfilledOrderKeepsResting ==
    Called =>
        \A id \in DOMAIN PreOrders :
            (/\ Eligible(PreOrders[id], last_call.now)
             /\ HasDepth(PreOrders[id], last_call.quotes)
             /\ ResultsOf(executed_trades, id) = <<>>
             /\ ~Referenced("Cancel", id)
             /\ ~Referenced("Modify", id))
            => /\ id \in DOMAIN inner
               /\ inner[id] = PreOrders[id]

\* an order got nothing from levels within its limit because an order with
\* a lower id took them in the same call, and rests
C15_Witness ==
    /\ Called
    /\ \E id, lower \in DOMAIN PreOrders :
          /\ lower < id
          /\ FillsOf(executed_trades, lower) /= <<>>
          /\ Eligible(PreOrders[id], last_call.now)
          /\ HasDepth(PreOrders[id], last_call.quotes)
          /\ LevelWalk(PreOrders[id], OppositeLevels(PreOrders[id], last_call.quotes),
                       PreOrders[id].qty) /= <<>>
          /\ ResultsOf(executed_trades, id) = <<>>
          /\ id \in DOMAIN inner

----------------------------------------------------------------------------
(* C16: V2 unknown venue.  A latency-eligible order whose venue is not in   *)
(* the quotes of a call (and that no Cancel or Modify of the call names)    *)
(* gets no result and is in the resting book, unchanged, after the call.    *)
C16_UnknownVenueLeavesOrderResting ==
    Called =>
        \A id \in DOMAIN PreOrders :
            (/\ Eligible(PreOrders[id], last_call.now)
             /\ PreOrders[id].exchange \notin DOMAIN last_call.quotes
             /\ ~Referenced("Cancel", id)
             /\ ~Referenced("Modify", id))
            => /\ ResultsOf(executed_trades, id) = <<>>
               /\ id \in DOMAIN inner
               /\ inner[id] = PreOrders[id]

\* an eligible market order met a feed that shows another venue only
C16_Witness ==
    /\ Called
    /\ DOMAIN last_call.quotes /= {}
    /\ \E id \in DOMAIN PreOrders :
          /\ Eligible(PreOrders[id], last_call.now)
          /\ PreOrders[id].order_type \in {"MarketBuy", "MarketSell"}
          /\ PreOrders[id].exchange \notin DOMAIN last_call.quotes
          /\ id \in DOMAIN inner

----------------------------------------------------------------------------
(* C17: idempotent empty tick.  A tick or execute_orders call on an engine  *)
(* with no resting orders and nothing staged returns empty results and      *)
(* leaves the resting book empty, the last order id, the staging buffer and *)
(* the result log as they were; the state it leaves meets the same          *)
(* precondition, so repeating the call changes nothing either.              *)
EmptyCall ==
    /\ engine \in {"UistV2", "OrderBook"}
    /\ now' = now + 1
    /\ inner = EmptyMap
    /\ order_buffer = <<>>

C17_EmptyTickChangesNothing ==
    [][EmptyCall =>
          /\ executed_trades' = <<>>
          /\ inserted_orders' = <<>>
          /\ inner' = EmptyMap
          /\ last_order_id' = last_order_id
          /\ order_buffer' = <<>>
          /\ order_result_log' = order_result_log
          /\ admitted' = admitted]_vars

\* a tick with a non-empty feed found the book and the buffer empty after
\* earlier orders had been admitted and had left the book
C17_Witness ==
    /\ Called
    /\ last_call.book = EmptyMap
    /\ last_call.staged = <<>>
    /\ DOMAIN last_call.quotes /= {}
    /\ last_order_id > 0
    /\ inner = EmptyMap
    /\ executed_trades = <<>>
    /\ inserted_orders = <<>>

----------------------------------------------------------------------------
(* C18: V1 trigger table.  In a Diana::execute_orders call, an order whose  *)
(* symbol has a quote at the call's date trades iff: MarketBuy, MarketSell  *)
(* always; LimitBuy limit >= ask; LimitSell limit <= bid; StopBuy           *)
(* stop <= ask; StopSell stop >= bid.  The trade is priced at the quote's   *)
(* ask for a buy and at its bid for a sell, and dated with the call's date. *)
Quoted(date, symbol) ==
    /\ date \in DOMAIN PenelopeSource
    /\ symbol \in DOMAIN PenelopeSource[date]

QuoteOf(date, symbol) == PenelopeSource[date][symbol]

IsBuyType(order) == order.order_type \in {"MarketBuy", "LimitBuy", "StopBuy"}

Triggers(order, quote) ==
    CASE order.order_type \in {"MarketBuy", "MarketSell"} -> TRUE
      [] order.order_type = "LimitBuy" -> Unwrap(order.price) >= quote.ask
      [] order.order_type = "LimitSell" -> Unwrap(order.price) <= quote.bid
      [] order.order_type = "StopBuy" -> Unwrap(order.price) <= quote.ask
      [] order.order_type = "StopSell" -> Unwrap(order.price) >= quote.bid

ExecutionPrice(order, quote) == IF IsBuyType(order) THEN quote.ask ELSE quote.bid

Fires(book, date, k) ==
    /\ Quoted(date, book[k].symbol)
    /\ Triggers(book[k], QuoteOf(date, book[k].symbol))

TableTrade(order, date) ==
    DianaTrade(order.symbol,
               ExecutionPrice(order, QuoteOf(date, order.symbol)) * order.shares,
               order.shares, date, IF IsBuyType(order) THEN "Buy" ELSE "Sell")

\* the trades the table gives for the keys, in the order the keys are visited
RECURSIVE TableTrades(_, _, _)
TableTrades(book, date, keys) ==
    IF keys = <<>> THEN <<>>
    ELSE IF Fires(book, date, Head(keys))
         THEN <<TableTrade(book[Head(keys)], date)>> \o TableTrades(book, date, Tail(keys))
         ELSE TableTrades(book, date, Tail(keys))

DianaCalled == diana_call.op = "execute_orders"

C18_TriggerTable ==
    DianaCalled =>
        diana_trades = TableTrades(diana_call.book, diana_call.date, diana_call.keys)

\* one call in which a limit or stop order traded at a quote price that is
\* not its own price, and another quoted limit or stop order did not trade
C18_Witness ==
    /\ DianaCalled
    /\ \E k, j \in DOMAIN diana_call.book :
          /\ diana_call.book[k].order_type \notin {"MarketBuy", "MarketSell"}
          /\ Fires(diana_call.book, diana_call.date, k)
          /\ ExecutionPrice(diana_call.book[k],
                            QuoteOf(diana_call.date, diana_call.book[k].symbol))
                /= Unwrap(diana_call.book[k].price)
          /\ TableTrade(diana_call.book[k], diana_call.date) \in Range(diana_trades)
          /\ Quoted(diana_call.date, diana_call.book[j].symbol)
          /\ ~Fires(diana_call.book, diana_call.date, j)
          /\ Len(diana_trades) < Len(diana_call.keys)

----------------------------------------------------------------------------
(* C19: V1 all-or-nothing.  In a Diana::execute_orders call each order that *)
(* triggers yields exactly one trade, with quantity = its shares and        *)
(* value = execution price * shares, and its id leaves the book; each order *)
(* that does not trigger stays in the book unchanged.  An id that has       *)
(* traded is never in the book again, so no order trades twice.             *)
DianaCallStep ==
    /\ engine = "Diana"
    /\ now' = now + 1

\* the keys of the call that trigger, in the order they were visited
FiredKeys == SelectSeq(diana_call'.keys, LAMBDA k : Fires(diana_inner, now, k))

C19_AllOrNothing ==
    [][/\ DianaCallStep =>
            /\ Len(diana_trades') = Len(FiredKeys)
            /\ \A i \in 1..Len(FiredKeys) :
                  /\ diana_trades'[i].symbol = diana_inner[FiredKeys[i]].symbol
                  /\ diana_trades'[i].quantity = diana_inner[FiredKeys[i]].shares
                  /\ diana_trades'[i].value =
                        ExecutionPrice(diana_inner[FiredKeys[i]],
                                       QuoteOf(now, diana_inner[FiredKeys[i]].symbol))
                        * diana_inner[FiredKeys[i]].shares
            /\ \A k \in DOMAIN diana_inner :
                  IF Fires(diana_inner, now, k)
                  THEN k \notin DOMAIN diana_inner'
                  ELSE k \in DOMAIN diana_inner' /\ diana_inner'[k] = diana_inner[k]
       /\ diana_completed' \cap DOMAIN diana_inner' = {}]_vars

\* of the two orders of one call, one traded in full and left the book, the
\* other did not trigger and rests as it was
C19_Witness ==
    /\ DianaCalled
    /\ \E k, j \in DOMAIN diana_call.book :
          /\ Fires(diana_call.book, diana_call.date, k)
          /\ ~Fires(diana_call.book, diana_call.date, j)
          /\ Len(diana_trades) = 1
          /\ diana_trades[1].quantity = diana_call.book[k].shares
          /\ k \in diana_completed
          /\ k \notin DOMAIN diana_inner
          /\ j \in DOMAIN diana_inner
          /\ diana_inner[j] = diana_call.book[j]
          /\ j \notin diana_completed

----------------------------------------------------------------------------
(* C20: V1 missing quote.  An order whose symbol has no quote at the date   *)
(* of a Diana::execute_orders call (a symbol never quoted included) gets no *)
(* trade and stays in the book unchanged; an order that waited in this way  *)
(* trades in the first later call whose date has a quote for its symbol, at *)
(* that quote's price and with that date.                                   *)
C20_WaitingOrderExecutesAtNextQuote ==
    [][DianaCallStep =>
          \A k \in DOMAIN diana_inner :
             /\ ~Quoted(now, diana_inner[k].symbol)
                => /\ k \in DOMAIN diana_inner'
                   /\ diana_inner'[k] = diana_inner[k]
             /\ (k \in diana_waited /\ Quoted(now, diana_inner[k].symbol))
                => /\ k \notin DOMAIN diana_inner'
                   /\ TableTrade(diana_inner[k], now) \in Range(diana_trades')]_vars

(* C20, with the trigger table: the order that waited trades in the first   *)
(* later call whose date has a quote for its symbol if its trigger holds at *)
(* that quote (a market order always), and keeps resting if it does not.    *)
C20_MissingQuoteLeavesOrderResting ==
    [][DianaCallStep =>
          /\ Len(diana_trades') =
                Cardinality({k \in DOMAIN diana_inner : Fires(diana_inner, now, k)})
          /\ \A k \in DOMAIN diana_inner :
                /\ ~Quoted(now, diana_inner[k].symbol)
                   => /\ k \in DOMAIN diana_inner'
                      /\ diana_inner'[k] = diana_inner[k]
                      /\ k \in diana_waited'
                /\ (k \in diana_waited /\ Fires(diana_inner, now, k))
                   => /\ k \notin DOMAIN diana_inner'
                      /\ TableTrade(diana_inner[k], now) \in Range(diana_trades')]_vars

\* a market order that met a date without a quote traded in the next call,
\* at that call's date and ask or bid
C20_Witness ==
    /\ DianaCalled
    /\ \E k \in DOMAIN diana_call.book :
          /\ k \in diana_waited
          /\ diana_call.book[k].order_type \in {"MarketBuy", "MarketSell"}
          /\ Fires(diana_call.book, diana_call.date, k)
          /\ diana_call.date > 0
          /\ k \in diana_completed
          /\ k \notin DOMAIN diana_inner
          /\ TableTrade(diana_call.book[k], diana_call.date) \in Range(diana_trades)

----------------------------------------------------------------------------
(* C21: staging sort, sells first.  Among the orders one UistV2::tick       *)
(* admits, every MarketSell / LimitSell gets a smaller order id than every  *)
(* order of another type, whatever the order of the insert_order calls.     *)
Ticked == last_call.op = "tick"

C21_SellsGetSmallerIds ==
    Ticked =>
        \A s, b \in Range(inserted_orders) :
            (IsSell(s.order_type) /\ ~IsSell(b.order_type)) => s.order_id < b.order_id

\* a buy was passed to insert_order before a sell, and the tick gave the
\* sell the smaller id
C21_Witness ==
    /\ Ticked
    /\ Len(last_call.staged) = 2
    /\ ~IsSell(last_call.staged[1].order_type)
    /\ IsSell(last_call.staged[2].order_type)
    /\ Len(inserted_orders) = 2
    /\ IsSell(inserted_orders[1].order_type)
    /\ inserted_orders[1].order_id < inserted_orders[2].order_id

----------------------------------------------------------------------------
(* C22: staging admission is exactly-once.  A tick admits every order       *)
(* staged since the previous tick exactly once: the list of inserted orders *)
(* it returns is a rearrangement of the staged orders, each with received   *)
(* timestamp = now and with consecutive ids from the last order id on, each *)
(* is in the resting book after the tick, and the buffer is empty after the *)
(* tick, so a later tick admits none of them again.                         *)
TickStep ==
    /\ engine = "UistV2"
    /\ now' = now + 1

\* the one-to-one assignments of positions of the returned list to positions
\* of the staging buffer
Rearrangements(n) ==
    {p \in [1..n -> 1..n] : \A i, j \in 1..n : i /= j => p[i] /= p[j]}

C22_StagedOrdersAdmittedOnce ==
    [][TickStep =>
          /\ Len(inserted_orders') = Len(order_buffer)
          /\ \E p \in Rearrangements(Len(order_buffer)) :
                \A i \in 1..Len(order_buffer) :
                   /\ inserted_orders'[i] =
                         InnerOrder(order_buffer[p[i]], now, last_order_id + i - 1)
                   /\ (last_order_id + i - 1) \in DOMAIN inner'
                   /\ inner'[last_order_id + i - 1] = inserted_orders'[i]
          /\ last_order_id' = last_order_id + Len(order_buffer)
          /\ order_buffer' = <<>>
          /\ admitted' = admitted \o inserted_orders']_vars

\* a tick admitted two staged orders, and a later tick with nothing staged
\* admitted nothing
C22_Witness ==
    /\ Ticked
    /\ last_call.staged = <<>>
    /\ inserted_orders = <<>>
    /\ order_buffer = <<>>
    /\ Len(admitted) = 2
    /\ admitted[1].recieved_timestamp = admitted[2].recieved_timestamp
    /\ admitted[1].order_id = 0
    /\ admitted[2].order_id = 1
    /\ last_order_id = 2

----------------------------------------------------------------------------
(* C23: V2 result ordering within a call.  In the list execute_orders       *)
(* returns every Cancel / Modify result comes before every Buy / Sell       *)
(* result, and the Buy / Sell results are grouped by order in ascending     *)
(* order id.                                                                *)
C23_ResultOrdering ==
    Called =>
        \A i, j \in 1..Len(executed_trades) :
            i < j =>
               /\ IsFill(executed_trades[i]) => IsFill(executed_trades[j])
               /\ (IsFill(executed_trades[i]) /\ IsFill(executed_trades[j]))
                  => executed_trades[i].order_id <= executed_trades[j].order_id

\* a Modify result is followed by two fills of the order it changed
C23_Witness ==
    /\ Called
    /\ Len(executed_trades) = 3
    /\ executed_trades[1].typ = "Modify"
    /\ IsFill(executed_trades[2])
    /\ IsFill(executed_trades[3])
    /\ executed_trades[2].order_id = executed_trades[3].order_id

----------------------------------------------------------------------------
(* C24: clock end of data.  ClockInner::tick panics exactly when it is      *)
(* called with the clock at its last timestamp; has_next() answers, and     *)
(* answers true exactly when one more tick() can be made without a panic;   *)
(* so while every tick was made after has_next() answered true, no call has *)
(* panicked and now() indexes a timestamp of the clock.                     *)
C24_ClockEndOfData ==
    engine = "Clock" =>
        /\ clock_ret.op = "tick" => (clock_ret.panic <=> clock_pos = Len(clock_dates))
        /\ clock_ret.op = "has_next"
           => /\ ~clock_ret.panic
              /\ clock_ret.flag <=> ~clock_tick(clock_pos, clock_dates).ret.panic
        /\ ~clock_unguarded
           => /\ ~clock_panicked
              /\ clock_pos < Len(clock_dates)

----------------------------------------------------------------------------
(* C25: facade serialisation.  Every handler holds the mutex from before    *)
(* its engine call until it returns, so the calls are linearised: when a    *)
(* handler's engine call completes, the engine is what that call makes of   *)
(* the engine the handler found when it got the lock (an insert_order that  *)
(* races with a tick lands entirely before or entirely after it), and no    *)
(* engine call begins while a tick is between its phases.                   *)
InHandler(th) == srv_pc[th] \in {"call", "mid", "reply"}

CallCompletes(th) ==
    /\ srv_pc[th] \in {"call", "mid"}
    /\ srv_pc'[th] = "reply"

C25_FacadeSerialisation ==
    [][/\ \A th \in Threads :
             /\ InHandler(th)' => srv_mutex' = th
             /\ CallCompletes(th)
                => srv_exchange' = EngineCall(srv_locked_at[th], srv_req[th])
       /\ ~srv_saw_mid']_vars

\* an insert_order waits for the mutex while a tick is between its phases,
\* after an earlier insert_order staged an order
C25_Witness ==
    \E th, other \in Threads :
        /\ srv_pc[th] = "mid"
        /\ srv_locked_at[th].buffer /= <<>>
        /\ srv_pc[other] = "lock"
        /\ srv_req[other].handler = "insert_order"

----------------------------------------------------------------------------
(* C26: V2 taker-volume side used for preemption.  Prints with side = Ask   *)
(* make up buy_vol at their price and prints with side = Bid make up        *)
(* sell_vol; a resting limit buy whose price is a bid-level price claims    *)
(* min(remaining, buy_vol - F[symbol, price]) there, and a resting limit    *)
(* sell whose price is an ask-level price claims from sell_vol likewise;    *)
(* with no print at the price nothing is claimed.                           *)

\* the size printed on one side at the price
RECURSIVE PrintVolume(_, _, _)
PrintVolume(trades, side, price) ==
    IF trades = <<>> THEN 0
    ELSE (IF Head(trades).px = price /\ Head(trades).side = side
          THEN Head(trades).sz ELSE 0)
         + PrintVolume(Tail(trades), side, price)

buy_vol(price) == PrintVolume(last_call.trades, "Ask", price)
sell_vol(price) == PrintVolume(last_call.trades, "Bid", price)

\* the one fill an order gets at its own price when a print was made there
\* and `left` is claimable
ClaimOf(o, left) ==
    IF ~AtTouchWithPrint(o) \/ left = 0 THEN <<>>
    ELSE <<[typ |-> IF o.order_type = "LimitBuy" THEN "Buy" ELSE "Sell",
            quantity |-> Min(o.qty, left),
            value |-> Unwrap(o.price) * Min(o.qty, left)]>>

\* the order rests at a level of its own side and the call matches it
RestsAtTouch(id) ==
    /\ Eligible(PreOrders[id], last_call.now)
    /\ HasDepth(PreOrders[id], last_call.quotes)
    /\ AtTouch(PreOrders[id])
    /\ ~Referenced("Cancel", id)
    /\ ~Referenced("Modify", id)

OwnPriceFills(id) ==
    Summary(FillsAtPrice(ResultsOf(executed_trades, id), PreOrders[id].symbol,
                         Unwrap(PreOrders[id].price)))

F(id) == ConsumedBefore(id, PreOrders[id].symbol, Unwrap(PreOrders[id].price))

C26_BuyClaimsBuyVol ==
    Called =>
        \A id \in DOMAIN PreOrders :
            RestsAtTouch(id) =>
                OwnPriceFills(id) =
                    ClaimOf(PreOrders[id],
                            IF PreOrders[id].order_type = "LimitBuy"
                            THEN buy_vol(Unwrap(PreOrders[id].price)) - F(id)
                            ELSE sell_vol(Unwrap(PreOrders[id].price)) - F(id))

(* C26, with the sides the code uses: a resting limit buy whose price is a  *)
(* bid-level price claims min(remaining, sell_vol - F[symbol, price]), the  *)
(* volume of the prints with side = Bid, and a resting limit sell whose     *)
(* price is an ask-level price claims from buy_vol, the volume of the       *)
(* prints with side = Ask; with no print at the price nothing is claimed.   *)
C26_BuyClaimsSellVol ==
    Called =>
        \A id \in DOMAIN PreOrders :
            RestsAtTouch(id) =>
                OwnPriceFills(id) =
                    ClaimOf(PreOrders[id],
                            IF PreOrders[id].order_type = "LimitBuy"
                            THEN sell_vol(Unwrap(PreOrders[id].price)) - F(id)
                            ELSE buy_vol(Unwrap(PreOrders[id].price)) - F(id))

\* a limit buy resting at the best bid was filled from a print with side =
\* Bid at that price, with no print of side = Ask there
C26_Witness ==
    /\ Called
    /\ \E id \in DOMAIN PreOrders :
          /\ RestsAtTouch(id)
          /\ PreOrders[id].order_type = "LimitBuy"
          /\ sell_vol(Unwrap(PreOrders[id].price)) > 0
          /\ buy_vol(Unwrap(PreOrders[id].price)) = 0
          /\ F(id) = 0
          /\ Len(OwnPriceFills(id)) = 1
          /\ OwnPriceFills(id)[1].quantity > 0

----------------------------------------------------------------------------
(* C27: V2 fill walk stops only on remaining = 0 or on price.  The walk of  *)
(* a buy considers every ask level within its limit in ascending order      *)
(* until remaining is 0 (a sell the bid levels, in descending order); a     *)
(* level whose displayed size earlier orders of the call have consumed      *)
(* gives no fill and does not end the walk, so the order still fills from   *)
(* deeper levels within its limit that have size left.                      *)

\* the displayed size of the level that the earlier fills of the call left
LeftAt(id, order, level) ==
    level.size - ConsumedBefore(id, order.symbol, level.price)

\* the <<typ, quantity, value>> of the fills of a walk that passes over the
\* levels with nothing left
RECURSIVE WalkPastConsumed(_, _, _, _)
WalkPastConsumed(id, order, levels, remaining) ==
    IF levels = <<>> \/ remaining = 0 THEN <<>>
    ELSE IF WithinLimit(order, Head(levels)) /\ LeftAt(id, order, Head(levels)) > 0
         THEN <<[typ |-> IF order.order_type \in {"MarketBuy", "LimitBuy"}
                         THEN "Buy" ELSE "Sell",
                 quantity |-> Min(remaining, LeftAt(id, order, Head(levels))),
                 value |-> Head(levels).price
                           * Min(remaining, LeftAt(id, order, Head(levels)))]>>
              \o WalkPastConsumed(id, order, Tail(levels),
                                  remaining - Min(remaining,
                                                  LeftAt(id, order, Head(levels))))
         ELSE WalkPastConsumed(id, order, Tail(levels), remaining)

C27_WalkPassesConsumedLevels ==
    Called =>
        \A id \in DOMAIN PreOrders :
            (/\ Eligible(PreOrders[id], last_call.now)
             /\ HasDepth(PreOrders[id], last_call.quotes)
             /\ ~Referenced("Cancel", id)
             /\ ~Referenced("Modify", id)
             /\ ~AtTouchWithPrint(PreOrders[id]))
            => Summary(ResultsOf(executed_trades, id))
                  = WalkPastConsumed(id, PreOrders[id],
                                     OppositeLevels(PreOrders[id], last_call.quotes),
                                     PreOrders[id].qty)

----------------------------------------------------------------------------
(* C28: V2 priority by submission.  When several resting orders of one side *)
(* compete in one call for the displayed size of a price level, the size is *)
(* allocated in ascending order id: an order is filled at the level for no  *)
(* more than the orders with lower ids left of it, and no order is filled   *)
(* at a level while an eligible order with a lower id that wanted the level *)
(* went short.                                                              *)

\* the order competes in the last call: it is matched, and no Cancel or
\* Modify of the call names it
Competes(id) ==
    /\ Eligible(PreOrders[id], last_call.now)
    /\ HasDepth(PreOrders[id], last_call.quotes)
    /\ ~Referenced("Cancel", id)
    /\ ~Referenced("Modify", id)

\* both orders walk the same side of the same book
SameBookSide(a, b) ==
    /\ a.symbol = b.symbol
    /\ a.exchange = b.exchange
    /\ IsSell(a.order_type) = IsSell(b.order_type)

\* the quantity the order was filled for at the price
FilledAt(id, price) ==
    QuantitySum(FillsOf(FillsAtPrice(executed_trades, PreOrders[id].symbol, price), id))

\* the quantity the orders below id on its side were filled for at the price
TakenBelow(id, price) ==
    LET Keep(r) == /\ r.order_id < id
                   /\ r.order_id \in DOMAIN PreOrders
                   /\ SameBookSide(PreOrders[r.order_id], PreOrders[id])
    IN QuantitySum(SelectSeq(FillsAtPrice(executed_trades, PreOrders[id].symbol, price),
                             Keep))

WentShort(id) ==
    QuantitySum(FillsOf(executed_trades, id)) < PreOrders[id].qty

C28_PriorityBySubmission ==
    Called =>
        \A hi \in DOMAIN PreOrders :
            Competes(hi) =>
                \A l \in Range(OppositeLevels(PreOrders[hi], last_call.quotes)) :
                    FilledAt(hi, l.price) > 0 =>
                        /\ FilledAt(hi, l.price) <= l.size - TakenBelow(hi, l.price)
                        /\ \A lo \in DOMAIN PreOrders :
                              (/\ lo < hi
                               /\ Competes(lo)
                               /\ SameBookSide(PreOrders[lo], PreOrders[hi])
                               /\ WithinLimit(PreOrders[lo], l))
                              => ~WentShort(lo)

----------------------------------------------------------------------------
(* C29: staging sort is stable.  Among the orders admitted by one tick, two *)
(* sell orders get their ids in the order they were passed to insert_order, *)
(* and so do two orders that are not sells.                                 *)

\* the admitted order is the staged order with an id and a timestamp
AdmittedFrom(staged, adm) ==
    /\ adm.order_type = staged.order_type
    /\ adm.symbol = staged.symbol
    /\ adm.qty = staged.qty
    /\ adm.price = staged.price
    /\ adm.order_id_ref = staged.order_id_ref
    /\ adm.exchange = staged.exchange

C29_StagingSortIsStable ==
    Ticked =>
        \A i, j \in 1..Len(last_call.staged) :
            (/\ i < j
             /\ last_call.staged[i] /= last_call.staged[j]
             /\ IsSell(last_call.staged[i].order_type)
                   = IsSell(last_call.staged[j].order_type))
            => \A a, b \in Range(inserted_orders) :
                  (/\ AdmittedFrom(last_call.staged[i], a)
                   /\ AdmittedFrom(last_call.staged[j], b))
                  => a.order_id < b.order_id

----------------------------------------------------------------------------
(* C30: V2 fill quantities are well formed.  For orders submitted with      *)
(* qty > 0, depth levels of size >= 0 and taker prints of size >= 0, every  *)
(* Buy or Sell result of a call has 0 < quantity <= the qty of its order,   *)
(* whatever the orders of the call and the paths (bid side, ask side, taker *)
(* volume) their fills come from.                                           *)

\* no Modify has changed the qty the order was submitted with
NeverModified(id) ==
    /\ ~Referenced("Modify", id)
    /\ PreOrders[id].qty = Submitted(id).qty

C30_FillQuantitiesWellFormed ==
    Called =>
        \A r \in Range(executed_trades) :
            (/\ IsFill(r)
             /\ r.order_id \in DOMAIN PreOrders
             /\ NeverModified(r.order_id))
            => /\ r.quantity > 0
               /\ r.quantity <= Submitted(r.order_id).qty

----------------------------------------------------------------------------
(* C31: V2 limit price is respected.  Every Buy result of a LimitBuy has a  *)
(* per-unit price (value / quantity) that is at most the limit price of the *)
(* order, and every Sell result of a LimitSell one that is at least its     *)
(* limit price, in every call and for every book.                           *)
C31_LimitPriceRespected ==
    Called =>
        \A r \in Range(executed_trades) :
            (IsFill(r) /\ r.order_id \in DOMAIN PreOrders /\ r.quantity /= 0) =>
                /\ PreOrders[r.order_id].order_type = "LimitBuy"
                      => UnitPrice(r) <= Unwrap(PreOrders[r.order_id].price)
                /\ PreOrders[r.order_id].order_type = "LimitSell"
                      => UnitPrice(r) >= Unwrap(PreOrders[r.order_id].price)

\* a limit buy was filled short of its qty at its limit while the book showed
\* size at a price above the limit
C31_Witness ==
    /\ Called
    /\ \E id \in DOMAIN PreOrders :
          /\ PreOrders[id].order_type = "LimitBuy"
          /\ HasDepth(PreOrders[id], last_call.quotes)
          /\ FillsOf(executed_trades, id) /= <<>>
          /\ QuantitySum(FillsOf(executed_trades, id)) < PreOrders[id].qty
          /\ \E l \in Range(OppositeLevels(PreOrders[id], last_call.quotes)) :
                l.price > Unwrap(PreOrders[id].price) /\ l.size > 0

----------------------------------------------------------------------------
(* C32: V2 venue isolation of the fill accumulator.  What an order consumes *)
(* on one venue within a call does not reduce the size available to an      *)
(* order on another venue that shows the same symbol at the same price: an  *)
(* order before which no order of its own venue was filled in the call      *)
(* walks the displayed sizes of its venue untouched.                        *)

\* no order with a lower id was filled on the venue of the order in the call
FirstOnVenue(id) ==
    \A r \in Range(executed_trades) :
        (IsFill(r) /\ r.order_id < id) => r.exchange /= PreOrders[id].exchange

C32_VenueIsolation ==
    Called =>
        \A id \in DOMAIN PreOrders :
            (/\ Eligible(PreOrders[id], last_call.now)
             /\ HasDepth(PreOrders[id], last_call.quotes)
             /\ ~Referenced("Cancel", id)
             /\ ~Referenced("Modify", id)
             /\ ~AtTouchWithPrint(PreOrders[id])
             /\ FirstOnVenue(id))
            => Summary(ResultsOf(executed_trades, id))
                  = LevelWalk(PreOrders[id],
                              OppositeLevels(PreOrders[id], last_call.quotes),
                              PreOrders[id].qty)

----------------------------------------------------------------------------
(* C33: V2 symbol isolation of taker volume.  Taker prints of one symbol    *)
(* give credit only to orders of that symbol: a limit order of symbol X     *)
(* that rests at a price p of its own side gets no fill at p when every     *)
(* taker print at p in the call is for another symbol.                      *)

\* the call has a taker print of the symbol at the price
PrintedFor(symbol, price) ==
    \E tr \in Range(last_call.trades) : tr.coin = symbol /\ tr.px = price

\* the call has a taker print at the price, of whatever symbol
PrintedAt(price) ==
    \E tr \in Range(last_call.trades) : tr.px = price

C33_TakerVolumeOfOwnSymbolOnly ==
    Called =>
        \A id \in DOMAIN PreOrders :
            (/\ HasDepth(PreOrders[id], last_call.quotes)
             /\ AtTouch(PreOrders[id])
             /\ \A l \in Range(OppositeLevels(PreOrders[id], last_call.quotes)) :
                   l.price /= Unwrap(PreOrders[id].price)
             /\ PrintedAt(Unwrap(PreOrders[id].price))
             /\ ~PrintedFor(PreOrders[id].symbol, Unwrap(PreOrders[id].price)))
            => FillsOf(FillsAtPrice(executed_trades, PreOrders[id].symbol,
                                    Unwrap(PreOrders[id].price)), id) = <<>>

----------------------------------------------------------------------------
(* C34: V2 Cancel/Modify entries are consumed by one call.  Every Cancel or *)
(* Modify that is in the resting book when execute_orders starts is applied *)
(* in that call, whatever the latency model says of it, and is gone from    *)
(* the book afterwards, whether or not the order it names existed; after    *)
(* execute_orders the book holds market and limit orders only (after a tick *)
(* also the Cancel/Modify entries the tick has just admitted).              *)

\* a step that runs execute_orders: ExecuteOrders or Tick
ExecuteStep ==
    /\ engine \in {"UistV2", "OrderBook"}
    /\ now' = now + 1

Instruction(order) == order.order_type \in {"Cancel", "Modify"}

\* the entry finds the order it names: a working order of the book that no
\* earlier Cancel of the book names
FindsReferent(c) ==
    /\ Unwrap(c.order_id_ref) \in DOMAIN inner
    /\ ~Instruction(inner[Unwrap(c.order_id_ref)])
    /\ \A id \in DOMAIN inner :
          (inner[id].order_type = "Cancel" /\ id < c.order_id)
          => inner[id].order_id_ref /= c.order_id_ref

\* the results the call returned for the entry
AnswersTo(c) ==
    {r \in Range(executed_trades') : r.order_id = c.order_id}

C34_InstructionsConsumed ==
    [][ExecuteStep =>
          /\ \A id \in DOMAIN inner :
                Instruction(inner[id]) =>
                    /\ id \notin DOMAIN inner'
                    /\ FindsReferent(inner[id])
                          => \E r \in AnswersTo(inner[id]) :
                                /\ r.typ = inner[id].order_type
                                /\ r.order_id_ref = inner[id].order_id_ref
                                /\ r.date = now
                    /\ Unwrap(inner[id].order_id_ref) \notin DOMAIN inner
                          => AnswersTo(inner[id]) = {}
          /\ \A id \in DOMAIN inner' :
                Instruction(inner'[id]) =>
                    /\ engine = "UistV2"
                    /\ inner'[id] \in Range(inserted_orders')]_vars

\* a Cancel that the latency model holds back was applied by a call: it is
\* answered, and it and the order it names are gone from the book
C34_Witness ==
    /\ last_call.op = "execute_orders"
    /\ \E id \in DOMAIN last_call.book :
          /\ last_call.book[id].order_type = "Cancel"
          /\ ~Eligible(last_call.book[id], last_call.now)
          /\ Referenced("Cancel", Unwrap(last_call.book[id].order_id_ref))
          /\ id \notin DOMAIN inner
          /\ Unwrap(last_call.book[id].order_id_ref) \notin DOMAIN inner

----------------------------------------------------------------------------
(* C35: V1 emission order is deterministic.  The trades returned by one     *)
(* Diana::execute_orders call appear in ascending order id of the orders    *)
(* that triggered, so the same book and the same quotes always give the     *)
(* same list in the same order.                                             *)
C35_TradesInAscendingOrderId ==
    DianaCalled =>
        diana_trades = TableTrades(diana_call.book, diana_call.date,
                                   AscendingSeq(DOMAIN diana_call.book))

----------------------------------------------------------------------------
(* C36: clock length.  from_length_seconds(start, n).every_second() yields  *)
(* exactly the n + 1 consecutive timestamps start, start + 1, ..., start +  *)
(* n; from_fixed(start, end).daily() with end = start + k days yields       *)
(* exactly the k + 1 timestamps start, start + 86400, ..., end; and peek()  *)
(* returns this list without changing the position of the clock.            *)

\* the n + 1 timestamps from start on, one every step
Timestamps(start, n, step) == [i \in 1..(n + 1) |-> start + (i - 1) * step]

\* the clock was asked for a whole number of days from start to a fixed end
WholeDays(call) ==
    /\ call.ctor = "from_fixed"
    /\ call.freq = "daily"
    /\ call.arg >= call.start
    /\ (call.arg - call.start) % 86400 = 0

PeekStep == clock_peeked' /= clock_peeked

C36_ClockLength ==
    /\ [](engine = "Clock" =>
            /\ (clock_call.ctor = "from_length_seconds" /\ clock_call.freq = "every_second")
                  => clock_dates = Timestamps(clock_call.start, clock_call.arg, 1)
            /\ WholeDays(clock_call)
                  => /\ clock_dates = Timestamps(clock_call.start,
                                                 (clock_call.arg - clock_call.start) \div 86400,
                                                 86400)
                     /\ clock_dates[Len(clock_dates)] = clock_call.arg)
    /\ [][PeekStep =>
             /\ clock_peeked'.dates = clock_dates
             /\ clock_pos' = clock_pos
             /\ clock_dates' = clock_dates]_vars

\* a clock built for a length of two seconds was ticked and then peeked: the
\* peek gave the three timestamps and the clock is still at its position
C36_Witness ==
    /\ engine = "Clock"
    /\ clock_call.ctor = "from_length_seconds"
    /\ clock_call.arg = 2
    /\ clock_pos = 1
    /\ clock_peeked.pos = 1
    /\ Len(clock_peeked.dates) = 3

----------------------------------------------------------------------------
(* C37: clock range.  For every ClockBuilder with start <= end, every       *)
(* timestamp that daily() and every_second() produce lies in [start, end],  *)
(* the first is start and the sequence is strictly increasing, so now()     *)
(* never reports a time after the configured end.                           *)

\* the end the builder was given or has computed from the length
ConfiguredEnd(call) ==
    CASE call.ctor = "from_fixed" -> call.arg
      [] call.ctor = "from_length_seconds" -> call.start + call.arg
      [] call.ctor = "from_length_days" -> call.start + call.arg * 86400

C37_ClockRange ==
    (engine = "Clock" /\ clock_call.start <= ConfiguredEnd(clock_call)) =>
        /\ clock_dates /= <<>>
        /\ clock_dates[1] = clock_call.start
        /\ \A i \in 1..Len(clock_dates) :
              /\ clock_call.start <= clock_dates[i]
              /\ clock_dates[i] <= ConfiguredEnd(clock_call)
        /\ \A i \in 1..(Len(clock_dates) - 1) : clock_dates[i] < clock_dates[i + 1]
        /\ (clock_ret.op = "now" /\ ~clock_ret.panic)
              => clock_ret.date <= ConfiguredEnd(clock_call)

----------------------------------------------------------------------------
(* C38 *)

\* a call of debit returns in this step
DebitStep == brk_calls' = brk_calls + 1 /\ brk_ret'.op = "debit"

\* a call of debit_force returns in this step
DebitForceStep == brk_calls' = brk_calls + 1 /\ brk_ret'.op = "debit_force"

\* C38: on either broker, debit of an amount above the balance answers
\* WithdrawFailure and leaves the balance as it was; any other debit answers
\* WithdrawSuccess and lowers the balance by exactly the amount, to a balance
\* that is not negative; debit_force always answers WithdrawSuccess and lowers
\* the balance by the amount, whatever the balance
C38_DebitAllOrNothing ==
    [][/\ DebitStep =>
            IF brk_ret'.value > cash
            THEN brk_ret'.event.typ = "WithdrawFailure" /\ cash' = cash
            ELSE /\ brk_ret'.event.typ = "WithdrawSuccess"
                 /\ cash' = cash - brk_ret'.value
                 /\ cash' >= 0
       /\ DebitForceStep =>
            /\ brk_ret'.event.typ = "WithdrawSuccess"
            /\ cash' = cash - brk_ret'.value]_vars

\* a debit of 2 has failed on a balance of 1 and left it there
C38_Witness ==
    /\ brk_ret.op = "debit"
    /\ brk_ret.event = BrokerCashEvent("WithdrawFailure", 2)
    /\ cash = 1

----------------------------------------------------------------------------
(* C39 *)

\* a call of check returns in this step
CheckStep == brk_calls' = brk_calls + 1 /\ brk_ret'.op = "check"

TradedSymbols == {trade.symbol : trade \in TradeInputs}

\* the quantity held of `symbol`: that of its entry, 0 without one
Held(held, symbol) == IF symbol \in DOMAIN held THEN held[symbol] ELSE 0

\* quantity of `symbol` bought less quantity sold over `trades`
RECURSIVE NetBought(_, _)
NetBought(trades, symbol) ==
    IF trades = <<>> THEN 0
    ELSE (IF Head(trades).symbol /= symbol THEN 0
          ELSE IF Head(trades).typ = "Buy" THEN Head(trades).quantity
          ELSE 0 - Head(trades).quantity)
         + NetBought(Tail(trades), symbol)

\* value of the Buy trades less value of the Sell trades of `trades`
RECURSIVE NetPaid(_)
NetPaid(trades) ==
    IF trades = <<>> THEN 0
    ELSE (IF Head(trades).typ = "Buy" THEN Head(trades).value
          ELSE 0 - Head(trades).value)
         + NetPaid(Tail(trades))

\* what the dividends of a date pay on the holdings `held`
RECURSIVE DividendsDue(_, _)
DividendsDue(held, dividends) ==
    IF dividends = <<>> THEN 0
    ELSE Held(held, Head(dividends).symbol) * Head(dividends).value
         + DividendsDue(held, Tail(dividends))

\* every trade of the exchange has been applied once, no entry of the
\* holdings map is 0, and each holding is what the trades bought less what
\* they sold
ReconciledOnce ==
    /\ last_seen_trade = Len(trade_log)
    /\ Len(brk_applied) = Len(trade_log)
    /\ \A i \in 1..Len(trade_log) : brk_applied[i] = 1
    /\ \A symbol \in DOMAIN holdings : holdings[symbol] /= 0
    /\ \A symbol \in TradedSymbols :
          Held(holdings, symbol) = NetBought(trade_log, symbol)

----------------------------------------------------------------------------
(* C40 *)

\* a withdrawal of the strategy returns WithdrawFailure in this step
FailedWithdrawalStep ==
    /\ brk_calls' = brk_calls + 1
    /\ brk_ret'.op \in {"withdraw_cash", "withdraw_cash_with_liquidation"}
    /\ brk_ret'.event.typ = "WithdrawFailure"

\* C40: after any sequence of init (deposit_cash) and withdrawal calls on a
\* StaticWeightStrategy, net_cash_flow equals the sum of the amounts deposited
\* less the sum of the amounts successfully withdrawn, and a withdrawal that
\* fails leaves net_cash_flow as it was
C40_NetCashFlow ==
    /\ [](engine = "Strategy" => net_cash_flow = strat_deposited - strat_withdrawn)
    /\ [][FailedWithdrawalStep => net_cash_flow' = net_cash_flow]_vars

====
